---- MODULE Spec2Model ----
(***************************************************************************)
(* Activity-tracking engine of zep-pixel-agents: the record-to-status      *)
(* state machine (src/src/transcriptParser.ts), the per-agent timers       *)
(* (src/src/timerManager.ts) and the agent registry                        *)
(* (src/src/agentManager.ts, the provider in src/unnamed/part_000).        *)
(*                                                                         *)
(* The handlers are written as functions from a "world" record to a world  *)
(* record, composed in the order of the source's statements; an action     *)
(* applies one whole handler to the current world.                         *)
(***************************************************************************)
EXTENDS Integers, Sequences, FiniteSets, TLC

VARIABLES
    agents,            \* Map<number, AgentState>: agent id -> AgentState
    timeouts,          \* live setTimeout handles of the event loop
    waitingTimers,     \* Map<number, Timeout>: agent id -> handle
    permissionTimers,  \* Map<number, Timeout>: agent id -> handle
    intervals,         \* live setInterval / fs.watch handles
    jsonlPollTimers,   \* Map<number, Interval>: agent id -> handle
    fileWatchers,      \* Map<number, FSWatcher>: agent id -> handle
    pollingTimers,     \* Map<number, Interval>: agent id -> handle
    nextAgentId,       \* nextAgentIdRef.current
    nextTerminalIndex, \* nextTerminalIndexRef.current
    activeAgentId,     \* activeAgentIdRef.current (0 = null)
    knownJsonlFiles,   \* Set<string>
    projectScanTimer,  \* projectScanTimerRef.current (0 = null)
    persisted,         \* workspaceState[WORKSPACE_KEY_AGENTS]
    terminals,         \* vscode.window.terminals: the "#n" of each live terminal
    files,             \* the log files on disk (session uuids): file -> bytes
    disposed,          \* dispose() has run
    agentTools,        \* the webview's agentTools state: agent id -> tool list
    ch,                \* the webview's Character of agent 1 (office engine)
    out,               \* messages posted to the webview by the last step
    cleared,           \* history: timeouts cancelled by the last step
    last,              \* history: what the last step was
    hist               \* history: per-agent summaries of the event trace

vars == <<agents, timeouts, waitingTimers, permissionTimers, intervals,
          jsonlPollTimers, fileWatchers, pollingTimers, nextAgentId,
          nextTerminalIndex, activeAgentId, knownJsonlFiles, projectScanTimer,
          persisted, terminals, files, disposed, agentTools, ch, out,
          cleared, last, hist>>

(***************************************************************************)
(* Program constants                                                       *)
(***************************************************************************)
TOOL_DONE_DELAY_MS == 300
PERMISSION_TIMER_DELAY_MS == 7000
TEXT_IDLE_DELAY_MS == 5000
SUBAGENT_DONE_DELAY_MS == 300

PERMISSION_EXEMPT_TOOLS == {"Task", "AskUserQuestion"}

(***************************************************************************)
(* Bounds of the model                                                     *)
(***************************************************************************)
MaxBlocks == 2    \* content blocks per record
MaxPending == 2   \* delayed tool-done / sub-task-done emissions in flight
MaxAgents == 2    \* agent ids the registry hands out

ToolIds == {"t1", "t2"}
SubToolIds == {"s1"}
ToolNames == {"Bash", "Task"}
SubToolNames == {"Bash", "AskUserQuestion"}

(***************************************************************************)
(* JS Map helpers: a Map is a function whose domain is its key set.        *)
(***************************************************************************)
EmptyMap == <<>>

MapSet(m, k, v) == [x \in (DOMAIN m) \cup {k} |-> IF x = k THEN v ELSE m[x]]

MapDelete(m, k) == [x \in (DOMAIN m) \ {k} |-> m[x]]

MapHas(m, k) == k \in DOMAIN m

Min(S) == CHOOSE x \in S : \A y \in S : x <= y

RECURSIVE SetToSeq(_)
SetToSeq(S) ==
    IF S = {} THEN <<>>
    ELSE LET x == CHOOSE y \in S : TRUE
         IN  <<x>> \o SetToSeq(S \ {x})

(***************************************************************************)
(* Messages posted to the webview.  "after" is the time that passed        *)
(* between the scheduling of the callback that posts the message and the   *)
(* posting (0 for a message posted by the handler itself).                 *)
(***************************************************************************)
Msg(type, id, toolId, parentToolId, status, after) ==
    [type |-> type, id |-> id, toolId |-> toolId,
     parentToolId |-> parentToolId, status |-> status, after |-> after]

postMessage(s, m) == [s EXCEPT !.out = Append(@, m)]

\* history: which branch of its handler the step took
Tag(s, tag) == [s EXCEPT !.tag = tag]

(***************************************************************************)
(* The event loop's timeouts.  A live timeout is a record                  *)
(*   kind   which callback it runs, with id, toolId, parentToolId the       *)
(*          values its closure captured                                    *)
(*   delay  the delay it was scheduled with, rem the time left             *)
(*   seq    its place in the event loop's list of the timeouts of the same *)
(*          delay (Node keeps one list per delay and runs it in order)     *)
(*   h      the handle setTimeout returned, for the timeouts whose handle  *)
(*          the program keeps (the waiting and permission timers): the     *)
(*          handles of one kind and agent are numbered apart; 0 otherwise  *)
(***************************************************************************)
Same(t, kind, agentId, toolId, parentToolId) ==
    /\ t.kind = kind /\ t.id = agentId
    /\ t.toolId = toolId /\ t.parentToolId = parentToolId

UsedHandles(s, kind, agentId) ==
    {t.h : t \in {u \in s.timeouts : Same(u, kind, agentId, "", "")}}
        \cup (IF kind = "waiting" /\ agentId \in DOMAIN s.waitingTimers
              THEN {s.waitingTimers[agentId]} ELSE {})
        \cup (IF kind = "permission" /\ agentId \in DOMAIN s.permissionTimers
              THEN {s.permissionTimers[agentId]} ELSE {})

NewHandle(s, kind, agentId) ==
    IF kind \in {"waiting", "permission"}
    THEN LET used == UsedHandles(s, kind, agentId)
         IN  Min((1..(Cardinality(used) + 1)) \ used)
    ELSE 0

setTimeout(s, kind, agentId, delayMs, toolId, parentToolId) ==
    LET t == [h |-> NewHandle(s, kind, agentId),
              seq |-> 1 + Cardinality({u \in s.timeouts : u.delay = delayMs}),
              kind |-> kind, id |-> agentId,
              delay |-> delayMs, rem |-> delayMs,
              toolId |-> toolId, parentToolId |-> parentToolId]
    IN  [s EXCEPT !.timeouts = @ \cup {t}]

\* the list of timeouts without t
Unlink(ts, t) ==
    {IF u.delay = t.delay /\ u.seq > t.seq THEN [u EXCEPT !.seq = @ - 1] ELSE u
        : u \in ts \ {t}}

RECURSIVE UnlinkAll(_, _)
UnlinkAll(ts, hit) ==
    IF hit = {} THEN ts
    ELSE LET t == CHOOSE u \in hit : \A v \in hit : u.seq >= v.seq
         IN  UnlinkAll(Unlink(ts, t), hit \ {t})

clearTimeout(s, kind, agentId, h) ==
    LET hit == {t \in s.timeouts : Same(t, kind, agentId, "", "") /\ t.h = h}
    IN  [s EXCEPT !.timeouts = UnlinkAll(@, hit),
                  !.cleared = @ \cup {[kind |-> t.kind, rem |-> t.rem] : t \in hit}]

(***************************************************************************)
(* AgentState (agentManager.ts:56-71 and :178-193)                         *)
(***************************************************************************)
NewAgentState(id, terminalName, jsonlFile, obj) ==
    [id |-> id, terminalRef |-> terminalName, jsonlFile |-> jsonlFile,
     obj |-> obj,
     fileOffset |-> 0, lineBuffer |-> <<>>,
     activeToolIds |-> {}, activeToolStatuses |-> EmptyMap,
     activeToolNames |-> EmptyMap,
     activeSubagentToolIds |-> EmptyMap, activeSubagentToolNames |-> EmptyMap,
     isWaiting |-> FALSE, permissionSent |-> FALSE, hadToolsInTurn |-> FALSE]

(***************************************************************************)
(* timerManager.ts                                                         *)
(***************************************************************************)
cancelPermissionTimer(s, agentId) ==
    IF MapHas(s.permissionTimers, agentId)
    THEN LET s1 == clearTimeout(s, "permission", agentId,
                                 s.permissionTimers[agentId])
         IN  [s1 EXCEPT !.permissionTimers = MapDelete(@, agentId)]
    ELSE s

clearAgentActivity(s, agentId) ==
    IF ~MapHas(s.agents, agentId) THEN s
    ELSE
    LET s1 == [s EXCEPT !.agents[agentId].activeToolIds = {},
                        !.agents[agentId].activeToolStatuses = EmptyMap,
                        !.agents[agentId].activeToolNames = EmptyMap,
                        !.agents[agentId].activeSubagentToolIds = EmptyMap,
                        !.agents[agentId].activeSubagentToolNames = EmptyMap,
                        !.agents[agentId].isWaiting = FALSE,
                        !.agents[agentId].permissionSent = FALSE]
        s2 == cancelPermissionTimer(s1, agentId)
        s3 == postMessage(s2, Msg("agentToolsClear", agentId, "", "", "", 0))
    IN  postMessage(s3, Msg("agentStatus", agentId, "", "", "active", 0))

cancelWaitingTimer(s, agentId) ==
    IF MapHas(s.waitingTimers, agentId)
    THEN LET s1 == clearTimeout(s, "waiting", agentId,
                                 s.waitingTimers[agentId])
         IN  [s1 EXCEPT !.waitingTimers = MapDelete(@, agentId)]
    ELSE s

\* the callback without the write of isWaiting
waitingTimerCallback_NoFlag(s, t) ==
    LET agentId == t.id
        s1 == [s EXCEPT !.waitingTimers = MapDelete(@, agentId)]
    IN  postMessage(s1, Msg("agentStatus", agentId, "", "", "waiting",
                            t.delay - t.rem))

\* the callback startWaitingTimer schedules (timerManager.ts:43-54)
waitingTimerCallback(s, t) ==
    LET agentId == t.id
        s1 == [s EXCEPT !.waitingTimers = MapDelete(@, agentId)]
        s2 == IF MapHas(s1.agents, agentId)
              THEN [s1 EXCEPT !.agents[agentId].isWaiting = TRUE]
              ELSE s1
    IN  postMessage(s2, Msg("agentStatus", agentId, "", "", "waiting",
                            t.delay - t.rem))

startWaitingTimer(s, agentId, delayMs) ==
    LET s1 == cancelWaitingTimer(s, agentId)
        h  == NewHandle(s1, "waiting", agentId)
        s2 == setTimeout(s1, "waiting", agentId, delayMs, "", "")
    IN  [s2 EXCEPT !.waitingTimers = MapSet(@, agentId, h)]

\* the check of the parent tools without the look at their names
HasNonExemptParentTool_AnyTool(agent, permissionExemptTools) ==
    agent.activeToolIds # {}

\* timerManager.ts:83-90: some active tool's name is not exempt
HasNonExemptParentTool(agent, permissionExemptTools) ==
    \E toolId \in agent.activeToolIds :
        LET toolName == IF MapHas(agent.activeToolNames, toolId)
                        THEN agent.activeToolNames[toolId] ELSE ""
        IN  toolName \notin permissionExemptTools

\* timerManager.ts:93-102: the parents that have a non-exempt nested tool
StuckSubagentParentToolIds(agent, permissionExemptTools) ==
    {parentToolId \in DOMAIN agent.activeSubagentToolNames :
        \E subId \in DOMAIN agent.activeSubagentToolNames[parentToolId] :
            agent.activeSubagentToolNames[parentToolId][subId]
                \notin permissionExemptTools}

RECURSIVE PostSubagentPermission(_, _, _, _)
PostSubagentPermission(s, agentId, parents, after) ==
    IF parents = <<>> THEN s
    ELSE PostSubagentPermission(
             postMessage(s, Msg("subagentToolPermission", agentId, "",
                                Head(parents), "", after)),
             agentId, Tail(parents), after)

\* the callback startPermissionTimer schedules (timerManager.ts:77-120)
permissionTimerCallback(s, t) ==
    LET agentId == t.id
        after == t.delay - t.rem
        s1 == [s EXCEPT !.permissionTimers = MapDelete(@, agentId)]
    IN  IF ~MapHas(s1.agents, agentId) THEN s1
        ELSE
        LET agent == s1.agents[agentId]
            stuck == StuckSubagentParentToolIds(agent, PERMISSION_EXEMPT_TOOLS)
            hasNonExempt ==
                HasNonExemptParentTool(agent, PERMISSION_EXEMPT_TOOLS)
                    \/ stuck # {}
        IN  IF hasNonExempt
            THEN LET s2 == [s1 EXCEPT !.agents[agentId].permissionSent = TRUE]
                     s3 == postMessage(s2, Msg("agentToolPermission", agentId,
                                               "", "", "", after))
                 IN  PostSubagentPermission(s3, agentId, SetToSeq(stuck), after)
            ELSE s1

\* startPermissionTimer scheduling with the idle delay
startPermissionTimer_IdleDelay(s, agentId) ==
    LET s1 == cancelPermissionTimer(s, agentId)
        h  == NewHandle(s1, "permission", agentId)
        s2 == setTimeout(s1, "permission", agentId, TEXT_IDLE_DELAY_MS, "", "")
    IN  [s2 EXCEPT !.permissionTimers = MapSet(@, agentId, h)]

\* startPermissionTimer leaving a live timer as it is
startPermissionTimer_KeepLive(s, agentId) ==
    IF MapHas(s.permissionTimers, agentId) THEN s
    ELSE LET h  == NewHandle(s, "permission", agentId)
             s2 == setTimeout(s, "permission", agentId,
                              PERMISSION_TIMER_DELAY_MS, "", "")
         IN  [s2 EXCEPT !.permissionTimers = MapSet(@, agentId, h)]

\* startPermissionTimer without its call of cancelPermissionTimer
startPermissionTimer_NoCancel(s, agentId) ==
    LET h  == NewHandle(s, "permission", agentId)
        s2 == setTimeout(s, "permission", agentId,
                         PERMISSION_TIMER_DELAY_MS, "", "")
    IN  [s2 EXCEPT !.permissionTimers = MapSet(@, agentId, h)]

startPermissionTimer(s, agentId) ==
    LET s1 == cancelPermissionTimer(s, agentId)
        h  == NewHandle(s1, "permission", agentId)
        s2 == setTimeout(s1, "permission", agentId,
                         PERMISSION_TIMER_DELAY_MS, "", "")
    IN  [s2 EXCEPT !.permissionTimers = MapSet(@, agentId, h)]

(***************************************************************************)
(* Log records.  A line parses to a record (or fails to parse); content    *)
(* blocks are tool_use / tool_result / text blocks, or a JSON null (whose  *)
(* .type access throws inside the handler's try block).                    *)
(***************************************************************************)
Block(type, id, name) == [type |-> type, id |-> id, name |-> name]

\* isArray: Array.isArray of the (inner) message content; content: its
\* blocks; text: a string content; parentToolUseID "" and dataType "" and
\* msgType "" stand for a missing parentToolUseID, data and data.message
Rec(type, subtype, isArray, content, text, parentToolUseID, dataType, msgType) ==
    [type |-> type, subtype |-> subtype, isArray |-> isArray,
     content |-> content, text |-> text,
     parentToolUseID |-> parentToolUseID, dataType |-> dataType,
     msgType |-> msgType]

\* String.prototype.trim on the strings the model uses
Trim(text) == IF text = " " THEN "" ELSE text

\* transcriptParser.ts:20-43, for the fixed inputs the model's blocks carry
\* (file_path "/a/b.py", command "ls", no description)
formatToolStatus(toolName) ==
    CASE toolName = "Read" -> "Reading b.py"
      [] toolName = "Edit" -> "Editing b.py"
      [] toolName = "Write" -> "Writing b.py"
      [] toolName = "Bash" -> "Running: ls"
      [] toolName = "Glob" -> "Searching files"
      [] toolName = "Grep" -> "Searching code"
      [] toolName = "WebFetch" -> "Fetching web content"
      [] toolName = "WebSearch" -> "Searching the web"
      [] toolName = "Task" -> "Running subtask"
      [] toolName = "AskUserQuestion" -> "Waiting for your answer"
      [] toolName = "EnterPlanMode" -> "Planning"
      [] toolName = "NotebookEdit" -> "Editing notebook"
      [] OTHER -> "Using"

\* Array.prototype.some(b => b.type === type): "true", "false", or "throw"
\* when a null block is reached before a match
RECURSIVE SomeOfType(_, _)
SomeOfType(blocks, type) ==
    IF blocks = <<>> THEN "false"
    ELSE IF Head(blocks).type = "null" THEN "throw"
    ELSE IF Head(blocks).type = type THEN "true"
    ELSE SomeOfType(Tail(blocks), type)

\* the result of running a loop over blocks: the world, whether a block
\* threw, and the loop's flag
LoopResult(s, threw, flag) == [s |-> s, threw |-> threw, flag |-> flag]

\* the loop taking every tool for a non-exempt one
RECURSIVE AssistantToolLoop_AllCount(_, _, _, _)
AssistantToolLoop_AllCount(s, agentId, blocks, hasNonExemptTool) ==
    IF blocks = <<>> THEN LoopResult(s, FALSE, hasNonExemptTool)
    ELSE
    LET block == Head(blocks) IN
    IF block.type = "null" THEN LoopResult(s, TRUE, hasNonExemptTool)
    ELSE IF block.type = "tool_use" /\ block.id # ""
    THEN LET toolName == block.name
             status == formatToolStatus(toolName)
             s1 == [s EXCEPT
                      !.agents[agentId].activeToolIds = @ \cup {block.id},
                      !.agents[agentId].activeToolStatuses =
                          MapSet(@, block.id, status),
                      !.agents[agentId].activeToolNames =
                          MapSet(@, block.id, toolName),
                      !.hist.started[agentId] = @ \cup {block.id},
                      !.hist.completed[agentId] = @ \ {block.id}]
             s2 == postMessage(s1, Msg("agentToolStart", agentId, block.id,
                                       "", status, 0))
         IN  AssistantToolLoop_AllCount(s2, agentId, Tail(blocks), TRUE)
    ELSE AssistantToolLoop_AllCount(s, agentId, Tail(blocks), hasNonExemptTool)

\* transcriptParser.ts:70-88
RECURSIVE AssistantToolLoop(_, _, _, _)
AssistantToolLoop(s, agentId, blocks, hasNonExemptTool) ==
    IF blocks = <<>> THEN LoopResult(s, FALSE, hasNonExemptTool)
    ELSE
    LET block == Head(blocks) IN
    IF block.type = "null" THEN LoopResult(s, TRUE, hasNonExemptTool)
    ELSE IF block.type = "tool_use" /\ block.id # ""
    THEN LET toolName == block.name
             status == formatToolStatus(toolName)
             s1 == [s EXCEPT
                      !.agents[agentId].activeToolIds = @ \cup {block.id},
                      !.agents[agentId].activeToolStatuses =
                          MapSet(@, block.id, status),
                      !.agents[agentId].activeToolNames =
                          MapSet(@, block.id, toolName),
                      !.hist.started[agentId] = @ \cup {block.id},
                      !.hist.completed[agentId] = @ \ {block.id}]
             s2 == postMessage(s1, Msg("agentToolStart", agentId, block.id,
                                       "", status, 0))
         IN  AssistantToolLoop(s2, agentId, Tail(blocks),
                 hasNonExemptTool \/ toolName \notin PERMISSION_EXEMPT_TOOLS)
    ELSE AssistantToolLoop(s, agentId, Tail(blocks), hasNonExemptTool)

\* the text branch without its test of hadToolsInTurn
processAssistantRecord_IdleInToolTurn(s, agentId, record) ==
    LET blocks == record.content
        hasToolUse == SomeOfType(blocks, "tool_use")
    IN  IF hasToolUse = "throw" THEN Tag(s, "threw")
        ELSE IF hasToolUse = "true"
        THEN LET s1 == cancelWaitingTimer(s, agentId)
                 s2 == [s1 EXCEPT !.agents[agentId].isWaiting = FALSE,
                                  !.agents[agentId].hadToolsInTurn = TRUE]
                 s3 == postMessage(s2, Msg("agentStatus", agentId, "", "",
                                           "active", 0))
                 r  == AssistantToolLoop(s3, agentId, blocks, FALSE)
             IN  IF r.threw THEN Tag(r.s, "threw")
                 ELSE IF r.flag
                 THEN Tag(startPermissionTimer(r.s, agentId), "toolsNonExempt")
                 ELSE Tag(r.s, "toolsExempt")
        ELSE IF SomeOfType(blocks, "text") = "true"
        THEN Tag(startWaitingTimer(s, agentId, TEXT_IDLE_DELAY_MS),
                 IF s.agents[agentId].hadToolsInTurn
                 THEN "assistantNoop" ELSE "textIdle")
        ELSE Tag(s, "assistantNoop")

\* the tool_use branch without its call of cancelWaitingTimer
processAssistantRecord_IdleTimerKept(s, agentId, record) ==
    LET blocks == record.content
        hasToolUse == SomeOfType(blocks, "tool_use")
    IN  IF hasToolUse = "throw" THEN Tag(s, "threw")
        ELSE IF hasToolUse = "true"
        THEN LET s2 == [s EXCEPT !.agents[agentId].isWaiting = FALSE,
                                 !.agents[agentId].hadToolsInTurn = TRUE]
                 s3 == postMessage(s2, Msg("agentStatus", agentId, "", "",
                                           "active", 0))
                 r  == AssistantToolLoop(s3, agentId, blocks, FALSE)
             IN  IF r.threw THEN Tag(r.s, "threw")
                 ELSE IF r.flag
                 THEN Tag(startPermissionTimer(r.s, agentId), "toolsNonExempt")
                 ELSE Tag(r.s, "toolsExempt")
        ELSE IF SomeOfType(blocks, "text") = "true"
                /\ ~s.agents[agentId].hadToolsInTurn
        THEN Tag(startWaitingTimer(s, agentId, TEXT_IDLE_DELAY_MS), "textIdle")
        ELSE Tag(s, "assistantNoop")

\* transcriptParser.ts:58-98
processAssistantRecord(s, agentId, record) ==
    LET blocks == record.content
        hasToolUse == SomeOfType(blocks, "tool_use")
    IN  IF hasToolUse = "throw" THEN Tag(s, "threw")
        ELSE IF hasToolUse = "true"
        THEN LET s1 == cancelWaitingTimer(s, agentId)
                 s2 == [s1 EXCEPT !.agents[agentId].isWaiting = FALSE,
                                  !.agents[agentId].hadToolsInTurn = TRUE]
                 s3 == postMessage(s2, Msg("agentStatus", agentId, "", "",
                                           "active", 0))
                 r  == AssistantToolLoop(s3, agentId, blocks, FALSE)
             IN  IF r.threw THEN Tag(r.s, "threw")
                 ELSE IF r.flag
                 THEN Tag(startPermissionTimer(r.s, agentId), "toolsNonExempt")
                 ELSE Tag(r.s, "toolsExempt")
        ELSE IF SomeOfType(blocks, "text") = "true"
                /\ ~s.agents[agentId].hadToolsInTurn
        THEN Tag(startWaitingTimer(s, agentId, TEXT_IDLE_DELAY_MS), "textIdle")
        ELSE Tag(s, "assistantNoop")

\* the tool_result loop without the removal of the completed id from
\* activeToolIds
RECURSIVE UserResultLoop_IdKept(_, _, _)
UserResultLoop_IdKept(s, agentId, blocks) ==
    IF blocks = <<>> THEN LoopResult(s, FALSE, FALSE)
    ELSE
    LET block == Head(blocks) IN
    IF block.type = "null" THEN LoopResult(s, TRUE, FALSE)
    ELSE IF block.type = "tool_result" /\ block.id # ""
    THEN LET completedToolId == block.id
             s2 == [s EXCEPT
                      !.agents[agentId].activeToolStatuses =
                          MapDelete(@, completedToolId),
                      !.agents[agentId].activeToolNames =
                          MapDelete(@, completedToolId),
                      !.hist.completed[agentId] = @ \cup {completedToolId}]
             s3 == setTimeout(s2, "toolDone", agentId, TOOL_DONE_DELAY_MS,
                              completedToolId, "")
         IN  UserResultLoop_IdKept(s3, agentId, Tail(blocks))
    ELSE UserResultLoop_IdKept(s, agentId, Tail(blocks))

\* the tool_result loop posting agentToolDone at once, ahead of the
\* clean-up of the nested tools
RECURSIVE UserResultLoop_DoneFirst(_, _, _)
UserResultLoop_DoneFirst(s, agentId, blocks) ==
    IF blocks = <<>> THEN LoopResult(s, FALSE, FALSE)
    ELSE
    LET block == Head(blocks) IN
    IF block.type = "null" THEN LoopResult(s, TRUE, FALSE)
    ELSE IF block.type = "tool_result" /\ block.id # ""
    THEN LET completedToolId == block.id
             agent == s.agents[agentId]
             isTask == MapHas(agent.activeToolNames, completedToolId)
                       /\ agent.activeToolNames[completedToolId] = "Task"
             s0 == postMessage(s, Msg("agentToolDone", agentId,
                                      completedToolId, "", "", 0))
             s1 == IF isTask
                   THEN postMessage(
                          [s0 EXCEPT
                             !.agents[agentId].activeSubagentToolIds =
                                 MapDelete(@, completedToolId),
                             !.agents[agentId].activeSubagentToolNames =
                                 MapDelete(@, completedToolId)],
                          Msg("subagentClear", agentId, "", completedToolId,
                              "", 0))
                   ELSE s0
             s2 == [s1 EXCEPT
                      !.agents[agentId].activeToolIds = @ \ {completedToolId},
                      !.agents[agentId].activeToolStatuses =
                          MapDelete(@, completedToolId),
                      !.agents[agentId].activeToolNames =
                          MapDelete(@, completedToolId),
                      !.hist.completed[agentId] = @ \cup {completedToolId}]
         IN  UserResultLoop_DoneFirst(s2, agentId, Tail(blocks))
    ELSE UserResultLoop_DoneFirst(s, agentId, Tail(blocks))

\* the tool_result loop without the clean-up of a completed Task's nested
\* tools
RECURSIVE UserResultLoop_SubTasksKept(_, _, _)
UserResultLoop_SubTasksKept(s, agentId, blocks) ==
    IF blocks = <<>> THEN LoopResult(s, FALSE, FALSE)
    ELSE
    LET block == Head(blocks) IN
    IF block.type = "null" THEN LoopResult(s, TRUE, FALSE)
    ELSE IF block.type = "tool_result" /\ block.id # ""
    THEN LET completedToolId == block.id
             s2 == [s EXCEPT
                      !.agents[agentId].activeToolIds = @ \ {completedToolId},
                      !.agents[agentId].activeToolStatuses =
                          MapDelete(@, completedToolId),
                      !.agents[agentId].activeToolNames =
                          MapDelete(@, completedToolId),
                      !.hist.completed[agentId] = @ \cup {completedToolId}]
             s3 == setTimeout(s2, "toolDone", agentId, TOOL_DONE_DELAY_MS,
                              completedToolId, "")
         IN  UserResultLoop_SubTasksKept(s3, agentId, Tail(blocks))
    ELSE UserResultLoop_SubTasksKept(s, agentId, Tail(blocks))

\* transcriptParser.ts:107-133
RECURSIVE UserResultLoop(_, _, _)
UserResultLoop(s, agentId, blocks) ==
    IF blocks = <<>> THEN LoopResult(s, FALSE, FALSE)
    ELSE
    LET block == Head(blocks) IN
    IF block.type = "null" THEN LoopResult(s, TRUE, FALSE)
    ELSE IF block.type = "tool_result" /\ block.id # ""
    THEN LET completedToolId == block.id
             agent == s.agents[agentId]
             isTask == MapHas(agent.activeToolNames, completedToolId)
                       /\ agent.activeToolNames[completedToolId] = "Task"
             s1 == IF isTask
                   THEN postMessage(
                          [s EXCEPT
                             !.agents[agentId].activeSubagentToolIds =
                                 MapDelete(@, completedToolId),
                             !.agents[agentId].activeSubagentToolNames =
                                 MapDelete(@, completedToolId)],
                          Msg("subagentClear", agentId, "", completedToolId,
                              "", 0))
                   ELSE s
             s2 == [s1 EXCEPT
                      !.agents[agentId].activeToolIds = @ \ {completedToolId},
                      !.agents[agentId].activeToolStatuses =
                          MapDelete(@, completedToolId),
                      !.agents[agentId].activeToolNames =
                          MapDelete(@, completedToolId),
                      !.hist.completed[agentId] = @ \cup {completedToolId}]
             s3 == setTimeout(s2, "toolDone", agentId, TOOL_DONE_DELAY_MS,
                              completedToolId, "")
         IN  UserResultLoop(s3, agentId, Tail(blocks))
    ELSE UserResultLoop(s, agentId, Tail(blocks))

\* the callback of transcriptParser.ts:125-131
toolDoneCallback(s, t) ==
    postMessage(s, Msg("agentToolDone", t.id, t.toolId, "", "",
                       t.delay - t.rem))

\* transcriptParser.ts:140-143 and :146-149
newUserPrompt(s, agentId) ==
    LET s1 == cancelWaitingTimer(s, agentId)
        s2 == clearAgentActivity(s1, agentId)
    IN  [s2 EXCEPT !.agents[agentId].hadToolsInTurn = FALSE]

\* the user branch clearing hadToolsInTurn after every tool-result record
processUserRecord_AlwaysClears(s, agentId, record) ==
    IF record.isArray
    THEN LET blocks == record.content
             hasToolResult == SomeOfType(blocks, "tool_result")
         IN  IF hasToolResult = "throw" THEN Tag(s, "threw")
             ELSE IF hasToolResult = "true"
             THEN LET r == UserResultLoop(s, agentId, blocks)
                  IN  IF r.threw THEN Tag(r.s, "threw")
                      ELSE Tag([r.s EXCEPT
                                  !.agents[agentId].hadToolsInTurn = FALSE],
                               "toolResults")
             ELSE Tag(newUserPrompt(s, agentId), "userPrompt")
    ELSE IF Trim(record.text) # ""
    THEN Tag(newUserPrompt(s, agentId), "userPrompt")
    ELSE Tag(s, "userNoop")

\* transcriptParser.ts:101-150
processUserRecord(s, agentId, record) ==
    IF record.isArray
    THEN LET blocks == record.content
             hasToolResult == SomeOfType(blocks, "tool_result")
         IN  IF hasToolResult = "throw" THEN Tag(s, "threw")
             ELSE IF hasToolResult = "true"
             THEN LET r == UserResultLoop(s, agentId, blocks)
                  IN  IF r.threw THEN Tag(r.s, "threw")
                      ELSE IF r.s.agents[agentId].activeToolIds = {}
                      THEN Tag([r.s EXCEPT
                                  !.agents[agentId].hadToolsInTurn = FALSE],
                               "toolResults")
                      ELSE Tag(r.s, "toolResults")
             ELSE Tag(newUserPrompt(s, agentId), "userPrompt")
    ELSE IF Trim(record.text) # ""
    THEN Tag(newUserPrompt(s, agentId), "userPrompt")
    ELSE Tag(s, "userNoop")

\* processTurnDuration without timerManager's cancelPermissionTimer and
\* without the reset of permissionSent
processTurnDuration_StallKept(s, agentId) ==
    LET s1 == cancelWaitingTimer(s, agentId)
        s3 == IF s1.agents[agentId].activeToolIds # {}
              THEN postMessage(
                     [s1 EXCEPT
                        !.agents[agentId].activeToolIds = {},
                        !.agents[agentId].activeToolStatuses = EmptyMap,
                        !.agents[agentId].activeToolNames = EmptyMap,
                        !.agents[agentId].activeSubagentToolIds = EmptyMap,
                        !.agents[agentId].activeSubagentToolNames = EmptyMap],
                     Msg("agentToolsClear", agentId, "", "", "", 0))
              ELSE s1
        s4 == [s3 EXCEPT !.agents[agentId].isWaiting = TRUE,
                         !.agents[agentId].hadToolsInTurn = FALSE]
    IN  Tag(postMessage(s4, Msg("agentStatus", agentId, "", "", "waiting", 0)),
            "turnDuration")

\* transcriptParser.ts:151-173
processTurnDuration(s, agentId) ==
    LET s1 == cancelWaitingTimer(s, agentId)
        s2 == cancelPermissionTimer(s1, agentId)
        s3 == IF s2.agents[agentId].activeToolIds # {}
              THEN postMessage(
                     [s2 EXCEPT
                        !.agents[agentId].activeToolIds = {},
                        !.agents[agentId].activeToolStatuses = EmptyMap,
                        !.agents[agentId].activeToolNames = EmptyMap,
                        !.agents[agentId].activeSubagentToolIds = EmptyMap,
                        !.agents[agentId].activeSubagentToolNames = EmptyMap],
                     Msg("agentToolsClear", agentId, "", "", "", 0))
              ELSE s2
        s4 == [s3 EXCEPT !.agents[agentId].isWaiting = TRUE,
                         !.agents[agentId].permissionSent = FALSE,
                         !.agents[agentId].hadToolsInTurn = FALSE]
    IN  Tag(postMessage(s4, Msg("agentStatus", agentId, "", "", "waiting", 0)),
            "turnDuration")

\* transcriptParser.ts:219-253
RECURSIVE SubagentToolUseLoop(_, _, _, _, _)
SubagentToolUseLoop(s, agentId, parentToolId, blocks, hasNonExemptSubTool) ==
    IF blocks = <<>> THEN LoopResult(s, FALSE, hasNonExemptSubTool)
    ELSE
    LET block == Head(blocks) IN
    IF block.type = "null" THEN LoopResult(s, TRUE, hasNonExemptSubTool)
    ELSE IF block.type = "tool_use" /\ block.id # ""
    THEN LET toolName == block.name
             status == formatToolStatus(toolName)
             agent == s.agents[agentId]
             subTools == IF MapHas(agent.activeSubagentToolIds, parentToolId)
                         THEN agent.activeSubagentToolIds[parentToolId]
                         ELSE {}
             subNames == IF MapHas(agent.activeSubagentToolNames, parentToolId)
                         THEN agent.activeSubagentToolNames[parentToolId]
                         ELSE EmptyMap
             s1 == [s EXCEPT
                      !.agents[agentId].activeSubagentToolIds =
                          MapSet(@, parentToolId, subTools \cup {block.id}),
                      !.agents[agentId].activeSubagentToolNames =
                          MapSet(@, parentToolId,
                                 MapSet(subNames, block.id, toolName))]
             s2 == postMessage(s1, Msg("subagentToolStart", agentId, block.id,
                                       parentToolId, status, 0))
         IN  SubagentToolUseLoop(s2, agentId, parentToolId, Tail(blocks),
                 hasNonExemptSubTool
                     \/ toolName \notin PERMISSION_EXEMPT_TOOLS)
    ELSE SubagentToolUseLoop(s, agentId, parentToolId, Tail(blocks),
                             hasNonExemptSubTool)

\* transcriptParser.ts:258-282
RECURSIVE SubagentToolResultLoop(_, _, _, _)
SubagentToolResultLoop(s, agentId, parentToolId, blocks) ==
    IF blocks = <<>> THEN LoopResult(s, FALSE, FALSE)
    ELSE
    LET block == Head(blocks) IN
    IF block.type = "null" THEN LoopResult(s, TRUE, FALSE)
    ELSE IF block.type = "tool_result" /\ block.id # ""
    THEN LET agent == s.agents[agentId]
             s1 == IF MapHas(agent.activeSubagentToolIds, parentToolId)
                   THEN [s EXCEPT
                           !.agents[agentId].activeSubagentToolIds[parentToolId]
                               = @ \ {block.id}]
                   ELSE s
             s2 == IF MapHas(agent.activeSubagentToolNames, parentToolId)
                   THEN [s1 EXCEPT
                           !.agents[agentId].activeSubagentToolNames[parentToolId]
                               = MapDelete(@, block.id)]
                   ELSE s1
             s3 == setTimeout(s2, "subagentToolDone", agentId,
                              SUBAGENT_DONE_DELAY_MS, block.id, parentToolId)
         IN  SubagentToolResultLoop(s3, agentId, parentToolId, Tail(blocks))
    ELSE SubagentToolResultLoop(s, agentId, parentToolId, Tail(blocks))

\* the callback of transcriptParser.ts:273-280
subagentToolDoneCallback(s, t) ==
    postMessage(s, Msg("subagentToolDone", t.id, t.toolId, t.parentToolId, "",
                       t.delay - t.rem))

\* the check taking every nested tool for a non-exempt one
StillHasNonExempt_AnyNested(agent) ==
    \E parentToolId \in DOMAIN agent.activeSubagentToolNames :
        DOMAIN agent.activeSubagentToolNames[parentToolId] # {}

\* transcriptParser.ts:285-294
StillHasNonExempt(agent) ==
    \E parentToolId \in DOMAIN agent.activeSubagentToolNames :
        \E subId \in DOMAIN agent.activeSubagentToolNames[parentToolId] :
            agent.activeSubagentToolNames[parentToolId][subId]
                \notin PERMISSION_EXEMPT_TOOLS

\* transcriptParser.ts:179-299
processProgressRecord(s, agentId, record) ==
    LET agent == s.agents[agentId]
        parentToolId == record.parentToolUseID
        dataType == record.dataType
    IN  IF parentToolId = "" THEN Tag(s, "progressNoop")
        ELSE IF dataType = "" THEN Tag(s, "progressNoop")
        ELSE IF dataType \in {"bash_progress", "mcp_progress"}
        THEN IF parentToolId \in agent.activeToolIds
             THEN Tag(startPermissionTimer(s, agentId), "pulse")
             ELSE Tag(s, "pulseIgnored")
        ELSE IF ~(MapHas(agent.activeToolNames, parentToolId)
                  /\ agent.activeToolNames[parentToolId] = "Task")
        THEN Tag(s, "progressNoop")
        ELSE IF record.msgType = "" THEN Tag(s, "progressNoop")
        ELSE IF ~record.isArray THEN Tag(s, "progressNoop")
        ELSE IF record.msgType = "assistant"
        THEN LET r == SubagentToolUseLoop(s, agentId, parentToolId,
                                          record.content, FALSE)
             IN  IF r.threw THEN Tag(r.s, "threw")
                 ELSE IF r.flag
                 THEN Tag(startPermissionTimer(r.s, agentId), "subToolsNonExempt")
                 ELSE Tag(r.s, "subToolsExempt")
        ELSE IF record.msgType = "user"
        THEN LET r == SubagentToolResultLoop(s, agentId, parentToolId,
                                             record.content)
             IN  IF r.threw THEN Tag(r.s, "threw")
                 ELSE IF StillHasNonExempt(r.s.agents[agentId])
                 THEN Tag(startPermissionTimer(r.s, agentId), "subResultsRestart")
                 ELSE Tag(r.s, "subResults")
        ELSE Tag(s, "progressNoop")

\* a line that is not JSON is taken for the end of the turn
processTranscriptLine_MalformedEndsTurn(s, agentId, record) ==
    IF ~MapHas(s.agents, agentId) THEN Tag(s, "noAgent")
    ELSE IF record.type = "malformed"
    THEN Tag(processTurnDuration(s, agentId), "malformed")
    ELSE IF record.type = "assistant" /\ record.isArray
    THEN processAssistantRecord(s, agentId, record)
    ELSE IF record.type = "progress"
    THEN processProgressRecord(s, agentId, record)
    ELSE IF record.type = "user"
    THEN processUserRecord(s, agentId, record)
    ELSE IF record.type = "system" /\ record.subtype = "turn_duration"
    THEN processTurnDuration(s, agentId)
    ELSE Tag(s, "ignored")

\* transcriptParser.ts:45-177.  A line that is not JSON has type "malformed"
\* (JSON.parse throws, the catch block swallows it).
processTranscriptLine(s, agentId, record) ==
    IF ~MapHas(s.agents, agentId) THEN Tag(s, "noAgent")
    ELSE IF record.type = "malformed" THEN Tag(s, "malformed")
    ELSE IF record.type = "assistant" /\ record.isArray
    THEN processAssistantRecord(s, agentId, record)
    ELSE IF record.type = "progress"
    THEN processProgressRecord(s, agentId, record)
    ELSE IF record.type = "user"
    THEN processUserRecord(s, agentId, record)
    ELSE IF record.type = "system" /\ record.subtype = "turn_duration"
    THEN processTurnDuration(s, agentId)
    ELSE Tag(s, "ignored")

(***************************************************************************)
(* The records a line can parse to                                         *)
(***************************************************************************)
SeqsUpTo(B, n) == UNION {[1..k -> B] : k \in 0..n}

NullBlock == Block("null", "", "")
TextBlock == Block("text", "", "")

AssistantBlocks ==
    {Block("tool_use", i, n) : i \in ToolIds, n \in ToolNames}
        \cup {TextBlock, NullBlock}

UserBlocks ==
    {Block("tool_result", i, "") : i \in ToolIds}
        \cup {TextBlock, NullBlock}

SubAssistantBlocks ==
    {Block("tool_use", i, n) : i \in SubToolIds, n \in SubToolNames}
        \cup {NullBlock}

SubUserBlocks ==
    {Block("tool_result", i, "") : i \in SubToolIds} \cup {NullBlock}

AssistantRecords ==
    {Rec("assistant", "", TRUE, c, "", "", "", "") :
        c \in SeqsUpTo(AssistantBlocks, MaxBlocks)}
        \cup {Rec("assistant", "", FALSE, <<>>, "hi", "", "", "")}

UserRecords ==
    {Rec("user", "", TRUE, c, "", "", "", "") :
        c \in SeqsUpTo(UserBlocks, MaxBlocks)}
        \cup {Rec("user", "", FALSE, <<>>, x, "", "", "") : x \in {"", " ", "hi"}}

SystemRecords ==
    {Rec("system", x, FALSE, <<>>, "", "", "", "") :
        x \in {"turn_duration", "other"}}

PulseRecords ==
    {Rec("progress", "", FALSE, <<>>, "", p, d, "") :
        p \in ToolIds, d \in {"bash_progress", "mcp_progress"}}

SubagentRecords ==
    {Rec("progress", "", TRUE, c, "", p, "agent_progress", "assistant") :
        p \in ToolIds, c \in SeqsUpTo(SubAssistantBlocks, MaxBlocks)}
    \cup
    {Rec("progress", "", TRUE, c, "", p, "agent_progress", "user") :
        p \in ToolIds, c \in SeqsUpTo(SubUserBlocks, MaxBlocks)}

OtherRecords ==
    {Rec("malformed", "", FALSE, <<>>, "", "", "", ""),
     Rec("file-history-snapshot", "", FALSE, <<>>, "", "", "", ""),
     Rec("progress", "", FALSE, <<>>, "", "", "bash_progress", ""),
     Rec("progress", "", FALSE, <<>>, "", "t1", "", ""),
     Rec("progress", "", FALSE, <<>>, "", "t1", "agent_progress", ""),
     Rec("progress", "", FALSE, <<>>, "", "t1", "agent_progress", "assistant"),
     Rec("progress", "", TRUE, <<>>, "", "t1", "agent_progress", "system")}

Records ==
    AssistantRecords \cup UserRecords \cup SystemRecords \cup PulseRecords
        \cup OtherRecords

(***************************************************************************)
(* Steps.  World is the program state a handler starts from; Commit makes  *)
(* the handler's result the next state.                                    *)
(***************************************************************************)
World ==
    [agents |-> agents, timeouts |-> timeouts,
     waitingTimers |-> waitingTimers, permissionTimers |-> permissionTimers,
     intervals |-> intervals, jsonlPollTimers |-> jsonlPollTimers,
     fileWatchers |-> fileWatchers, pollingTimers |-> pollingTimers,
     nextAgentId |-> nextAgentId, nextTerminalIndex |-> nextTerminalIndex,
     activeAgentId |-> activeAgentId, knownJsonlFiles |-> knownJsonlFiles,
     projectScanTimer |-> projectScanTimer, persisted |-> persisted,
     terminals |-> terminals, files |-> files, disposed |-> disposed,
     agentTools |-> agentTools, ch |-> ch,
     out |-> <<>>, cleared |-> {}, tag |-> "", hist |-> hist]

Commit(s, op, id) ==
    /\ agents' = s.agents
    /\ timeouts' = s.timeouts
    /\ waitingTimers' = s.waitingTimers
    /\ permissionTimers' = s.permissionTimers
    /\ intervals' = s.intervals
    /\ jsonlPollTimers' = s.jsonlPollTimers
    /\ fileWatchers' = s.fileWatchers
    /\ pollingTimers' = s.pollingTimers
    /\ nextAgentId' = s.nextAgentId
    /\ nextTerminalIndex' = s.nextTerminalIndex
    /\ activeAgentId' = s.activeAgentId
    /\ knownJsonlFiles' = s.knownJsonlFiles
    /\ projectScanTimer' = s.projectScanTimer
    /\ persisted' = s.persisted
    /\ terminals' = s.terminals
    /\ files' = s.files
    /\ disposed' = s.disposed
    /\ agentTools' = s.agentTools
    /\ ch' = s.ch
    /\ out' = s.out
    /\ cleared' = s.cleared
    /\ hist' = s.hist
    /\ last' = [op |-> op, id |-> id, tag |-> s.tag]

DelayedEmissions(s) ==
    {t \in s.timeouts : t.kind \in {"toolDone", "subagentToolDone"}}

\* history kept per agent:
\*   started    tool ids a tool-start message was posted for
\*   completed  tool ids whose tool-result was processed after their last start
\*   waitingSinceLine, stallSinceLine
\*              'waiting' status / stall messages posted by timer callbacks
\*              since the last line was processed
\*   lineTag    the branch processTranscriptLine took for the last line
\*   sinceLine  the time (ms) passed since the last line was processed
\* (the last four are kept where time is measured: timed)
\*   emitted    the lines the tailer handed to the parser since the agent's
\*              AgentState was made or bound to its file
\*   readFrom   the file position of the first byte of the text the tailer
\*              split at its last read (0: it has not read yet)
\*   restored   the file restoreAgents made the AgentState for and the size
\*              the file had then (file 0: the AgentState was not restored)
\*   rebinds    the files the directory scan rebound an agent to, in order
\*   owner      the terminal an id was first given to by launchNewTerminal or
\*              restoreAgents (0: the id has not been given out)
NoHistory ==
    [timed |-> FALSE,
     started |-> [i \in 1..MaxAgents |-> {}],
     completed |-> [i \in 1..MaxAgents |-> {}],
     waitingSinceLine |-> [i \in 1..MaxAgents |-> 0],
     stallSinceLine |-> [i \in 1..MaxAgents |-> 0],
     lineTag |-> [i \in 1..MaxAgents |-> ""],
     sinceLine |-> [i \in 1..MaxAgents |-> 0],
     emitted |-> [i \in 1..MaxAgents |-> <<>>],
     readFrom |-> [i \in 1..MaxAgents |-> 0],
     restored |-> [i \in 1..MaxAgents |-> [file |-> 0, size |-> 0]],
     rebinds |-> <<>>,
     owner |-> [i \in 1..MaxAgents |-> 0]]

\* processTranscriptLine with the history of its call
LineProcessed(s, agentId, record) ==
    LET s0 == [s EXCEPT !.hist.waitingSinceLine[agentId] = 0,
                        !.hist.stallSinceLine[agentId] = 0]
        s1 == processTranscriptLine(s0, agentId, record)
    IN  IF s.hist.timed
        THEN [s1 EXCEPT !.hist.lineTag[agentId] = s1.tag,
                        !.hist.sinceLine[agentId] = 0]
        ELSE s1

\* One line of an agent's log reaches processTranscriptLine.
ReadLine(agentId, record) ==
    /\ agentId \in DOMAIN agents
    /\ LET s2 == LineProcessed(World, agentId, record)
       IN  /\ Cardinality(DelayedEmissions(s2)) <= MaxPending
           /\ Commit(s2, "line", agentId)

\* the callback a timeout runs
runTimeout(s, t) ==
    CASE t.kind = "waiting" ->
           LET s1 == waitingTimerCallback(s, t)
           IN  IF s.hist.timed
               THEN [s1 EXCEPT !.hist.waitingSinceLine[t.id] = @ + 1]
               ELSE s1
      [] t.kind = "permission" ->
           LET s1 == permissionTimerCallback(s, t)
               n == Cardinality({k \in 1..Len(s1.out) :
                                   s1.out[k].type = "agentToolPermission"})
           IN  IF s.hist.timed
               THEN [s1 EXCEPT !.hist.stallSinceLine[t.id] = @ + n]
               ELSE s1
      [] t.kind = "toolDone" -> toolDoneCallback(s, t)
      [] t.kind = "subagentToolDone" -> subagentToolDoneCallback(s, t)

\* A timeout fires: it leaves the event loop's list and its callback runs.
\* Here the time that passes until t is due is not measured against the
\* timeouts of other delays: the head of any list may be the next to fire.
TimeoutFires(t) ==
    /\ t \in timeouts
    /\ t.seq = 1
    /\ LET due == [t EXCEPT !.rem = 0]
           s0 == [World EXCEPT !.timeouts = Unlink(@, t)]
       IN  Commit(Tag(runTimeout(s0, due), t.kind), "timeout", t.id)

(***************************************************************************)
(* The agent registry (agentManager.ts and the view provider).             *)
(*   terminals  the names (indexes) of the live terminals                  *)
(*   files      the log files that exist, each with its size in lines      *)
(*   intervals  the live setInterval timers and file watchers: kind is     *)
(*              "jsonlPoll", "watcher", "polling" or "projectScan"; id,    *)
(*              obj and file are what the callback's closure captured (obj *)
(*              tells apart the AgentState objects made for one id);       *)
(*              origin is the function that made it; h is the handle       *)
(*   persisted  workspaceState[WORKSPACE_KEY_AGENTS]                       *)
(* activeAgentId 0 and projectScanTimer 0 stand for null.                  *)
(***************************************************************************)
MaxIntervals == 6

Interval(kind, id, h, obj, file, origin) ==
    [kind |-> kind, id |-> id, h |-> h, obj |-> obj, file |-> file,
     origin |-> origin]

LiveIntervals(s, kind, id) ==
    {iv \in s.intervals : iv.kind = kind /\ iv.id = id}

NewIntervalHandle(s, kind, id) ==
    LET used == {iv.h : iv \in LiveIntervals(s, kind, id)}
                    \cup (IF kind = "jsonlPoll" /\ MapHas(s.jsonlPollTimers, id)
                          THEN {s.jsonlPollTimers[id]} ELSE {})
                    \cup (IF kind = "watcher" /\ MapHas(s.fileWatchers, id)
                          THEN {s.fileWatchers[id]} ELSE {})
                    \cup (IF kind = "polling" /\ MapHas(s.pollingTimers, id)
                          THEN {s.pollingTimers[id]} ELSE {})
    IN  Min((1..(Cardinality(used) + 1)) \ used)

\* clearInterval(handle) / FSWatcher.close()
clearInterval(s, kind, id, h) ==
    [s EXCEPT !.intervals =
        {iv \in @ : ~(iv.kind = kind /\ iv.id = id /\ iv.h = h)}]

\* a new AgentState object for id
NewObj(s, id) ==
    LET used == {iv.obj : iv \in {x \in s.intervals : x.id = id}}
                    \cup (IF MapHas(s.agents, id) THEN {s.agents[id].obj}
                          ELSE {})
    IN  Min((1..(Cardinality(used) + 1)) \ used)

\* crypto.randomUUID(): a file name nothing refers to yet
NewUuid(s) ==
    LET used == s.knownJsonlFiles \cup DOMAIN s.files
                    \cup {s.persisted[k].jsonlFile : k \in 1..Len(s.persisted)}
                    \cup {s.agents[i].jsonlFile : i \in DOMAIN s.agents}
                    \cup {iv.file : iv \in s.intervals}
    IN  Min((1..(Cardinality(used) + 1)) \ used)

\* the ids of a map in the order in which persistAgents walks it
RECURSIVE Ascending(_)
Ascending(S) ==
    IF S = {} THEN <<>>
    ELSE LET x == Min(S) IN <<x>> \o Ascending(S \ {x})

\* agents.set / agents.delete takes the AgentState object of id out of the
\* map: the callbacks that captured the object keep it as it is now
Detach(s, id) ==
    IF ~MapHas(s.agents, id) THEN s
    ELSE [s EXCEPT !.intervals =
            {IF iv.id = id /\ iv.obj = s.agents[id].obj /\ iv.kind = "jsonlPoll"
             THEN [iv EXCEPT !.file = s.agents[id].jsonlFile] ELSE iv
                : iv \in @}]

\* agent.jsonlFile as an existence poll's callback reads it: the field of
\* the AgentState object its closure holds
PollFile(s, iv) ==
    IF MapHas(s.agents, iv.id) /\ s.agents[iv.id].obj = iv.obj
    THEN s.agents[iv.id].jsonlFile
    ELSE iv.file

\* agentManager.ts:134-148
persistAgents(s) ==
    LET ids == Ascending(DOMAIN s.agents)
    IN  [s EXCEPT !.persisted =
            [k \in 1..Len(ids) |->
                [id |-> s.agents[ids[k]].id,
                 terminalName |-> s.agents[ids[k]].terminalRef,
                 jsonlFile |-> s.agents[ids[k]].jsonlFile]]]

\* fileWatcher.ts startFileWatching: the tailer's two wake-up sources, a
\* file-change watcher and the backup poll
startFileWatching(s, agentId, filePath) ==
    LET w  == NewIntervalHandle(s, "watcher", agentId)
        p  == NewIntervalHandle(s, "polling", agentId)
        obj == IF MapHas(s.agents, agentId) THEN s.agents[agentId].obj ELSE 0
    IN  [s EXCEPT
           !.intervals = @ \cup
               {Interval("watcher", agentId, w, obj, filePath, "startFileWatching"),
                Interval("polling", agentId, p, obj, filePath, "startFileWatching")},
           !.fileWatchers = MapSet(@, agentId, w),
           !.pollingTimers = MapSet(@, agentId, p)]

\* fileWatcher.ts ensureProjectScan: starts the directory scan once, the
\* files already in the directory being known
startProjectScan(s, h) ==
    [s EXCEPT
        !.knownJsonlFiles = @ \cup DOMAIN s.files,
        !.projectScanTimer = h,
        !.intervals = @ \cup
            {Interval("projectScan", 0, h, 0, 0, "ensureProjectScan")}]

ensureProjectScan(s) ==
    IF s.projectScanTimer # 0 THEN s
    ELSE startProjectScan(s, NewIntervalHandle(s, "projectScan", 0))

\* const t = jsonlPollTimers.get(id); if (t) clearInterval(t);
\* jsonlPollTimers.delete(id)   (agentManager.ts:113-116)
stopJsonlPoll(s, agentId) ==
    IF MapHas(s.jsonlPollTimers, agentId)
    THEN [clearInterval(s, "jsonlPoll", agentId, s.jsonlPollTimers[agentId])
             EXCEPT !.jsonlPollTimers = MapDelete(@, agentId)]
    ELSE s

\* fileWatchers.get(id)?.close(); fileWatchers.delete(id)
\* (agentManager.ts:118-120)
closeFileWatcher(s, agentId) ==
    IF MapHas(s.fileWatchers, agentId)
    THEN [clearInterval(s, "watcher", agentId, s.fileWatchers[agentId])
             EXCEPT !.fileWatchers = MapDelete(@, agentId)]
    ELSE s

\* const pt = pollingTimers.get(id); if (pt) clearInterval(pt);
\* pollingTimers.delete(id)   (agentManager.ts:121-123)
stopPolling(s, agentId) ==
    IF MapHas(s.pollingTimers, agentId)
    THEN [clearInterval(s, "polling", agentId, s.pollingTimers[agentId])
             EXCEPT !.pollingTimers = MapDelete(@, agentId)]
    ELSE s

\* agents.delete(id)
deleteAgent(s, agentId) ==
    [Detach(s, agentId) EXCEPT !.agents = MapDelete(@, agentId)]

\* the removal without the write of the persisted list
removeAgent_NoPersist(s, agentId) ==
    IF ~MapHas(s.agents, agentId) THEN s
    ELSE deleteAgent(
           cancelPermissionTimer(
             cancelWaitingTimer(
               stopPolling(
                 closeFileWatcher(
                   stopJsonlPoll(s, agentId), agentId), agentId), agentId),
             agentId), agentId)

\* agentManager.ts:100-132: the existence poll, the watcher and the backup
\* poll are stopped, the two timers cancelled, the agent deleted, the list
\* persisted
removeAgent(s, agentId) ==
    IF ~MapHas(s.agents, agentId) THEN s
    ELSE persistAgents(
           deleteAgent(
             cancelPermissionTimer(
               cancelWaitingTimer(
                 stopPolling(
                   closeFileWatcher(
                     stopJsonlPoll(s, agentId), agentId), agentId), agentId),
               agentId), agentId))

\* setInterval of an existence poll whose closure holds the AgentState
\* object obj; jsonlPollTimers.set(id, pollTimer)
\* (agentManager.ts:86-97, :217-229)
startJsonlPoll(s, id, obj, file, origin) ==
    [s EXCEPT
       !.intervals = @ \cup
           {Interval("jsonlPoll", id, NewIntervalHandle(s, "jsonlPoll", id),
                     obj, file, origin)},
       !.jsonlPollTimers = MapSet(@, id, NewIntervalHandle(s, "jsonlPoll", id))]

\* the agent is made without its log file being added to knownJsonlFiles
createAgent_FileNotRegistered(s, id, idx, expectedFile, obj) ==
    startJsonlPoll(
      ensureProjectScan(
        postMessage(
          persistAgents(
            [s EXCEPT !.nextAgentId = @ + 1,
                      !.agents = MapSet(@, id,
                                     NewAgentState(id, idx, expectedFile, obj)),
                      !.activeAgentId = id,
                      !.hist.owner[id] = IF @ = 0 THEN idx ELSE @]),
          Msg("agentCreated", id, "", "", "", 0))),
      id, obj, expectedFile, "launchNewTerminal")

\* agentManager.ts:40-98: the agent id for terminal idx and expectedFile is
\* made, persisted and announced, the scan and the existence poll started
createAgent(s, id, idx, expectedFile, obj) ==
    startJsonlPoll(
      ensureProjectScan(
        postMessage(
          persistAgents(
            [s EXCEPT !.knownJsonlFiles = @ \cup {expectedFile},
                      !.nextAgentId = @ + 1,
                      !.agents = MapSet(@, id,
                                     NewAgentState(id, idx, expectedFile, obj)),
                      !.activeAgentId = id,
                      !.hist.owner[id] = IF @ = 0 THEN idx ELSE @]),
          Msg("agentCreated", id, "", "", "", 0))),
      id, obj, expectedFile, "launchNewTerminal")

\* agentManager.ts:18-98; the terminal "Claude Code #idx" is terminal idx
launchNewTerminal(s) ==
    createAgent([s EXCEPT !.nextTerminalIndex = @ + 1,
                          !.terminals = @ \cup {s.nextTerminalIndex}],
                s.nextAgentId, s.nextTerminalIndex,
                NewUuid(s), NewObj(s, s.nextAgentId))

\* the loop without the skip to the end of a log file that exists
RECURSIVE RestoreLoop_OffsetZero(_, _, _)
RestoreLoop_OffsetZero(s, k, acc) ==
    IF k > Len(s.persisted) THEN [s |-> s, acc |-> acc]
    ELSE
    LET p == s.persisted[k] IN
    IF p.terminalName \notin s.terminals THEN RestoreLoop_OffsetZero(s, k + 1, acc)
    ELSE
    LET agent == NewAgentState(p.id, p.terminalName, p.jsonlFile,
                               NewObj(s, p.id))
        size == IF p.jsonlFile \in DOMAIN s.files
                THEN Len(s.files[p.jsonlFile]) ELSE 0
        s1 == [Detach(s, p.id) EXCEPT
                 !.agents = MapSet(@, p.id, agent),
                 !.knownJsonlFiles = @ \cup {p.jsonlFile},
                 !.hist.restored[p.id] = [file |-> p.jsonlFile, size |-> size],
                 !.hist.owner[p.id] = IF @ = 0 THEN p.terminalName ELSE @,
                 !.hist.emitted[p.id] = <<>>,
                 !.hist.readFrom[p.id] = 0]
        acc1 == [maxId |-> IF p.id > acc.maxId THEN p.id ELSE acc.maxId,
                 maxIdx |-> IF p.terminalName > acc.maxIdx
                            THEN p.terminalName ELSE acc.maxIdx,
                 restored |-> TRUE]
        s2 == IF p.jsonlFile \in DOMAIN s1.files
              THEN startFileWatching(
                     s1,
                     p.id, p.jsonlFile)
              ELSE LET h == NewIntervalHandle(s1, "jsonlPoll", p.id)
                   IN  [s1 EXCEPT
                          !.intervals = @ \cup
                              {Interval("jsonlPoll", p.id, h, agent.obj,
                                        p.jsonlFile, "restoreAgents")},
                          !.jsonlPollTimers = MapSet(@, p.id, h)]
    IN  RestoreLoop_OffsetZero(s2, k + 1, acc1)

\* agentManager.ts:177-195 and :209-231 for the persisted entry p: the
\* AgentState made for it replaces what the map holds for p.id; with the log
\* file there the tailer starts at its end, otherwise an existence poll
\* waits for it
restoreAgent(s, p, obj) ==
    IF p.jsonlFile \in DOMAIN s.files
    THEN startFileWatching(
           [Detach(s, p.id) EXCEPT
              !.agents = MapSet(@, p.id,
                  [NewAgentState(p.id, p.terminalName, p.jsonlFile, obj)
                      EXCEPT !.fileOffset = Len(s.files[p.jsonlFile])]),
              !.knownJsonlFiles = @ \cup {p.jsonlFile},
              !.hist.restored[p.id] =
                  [file |-> p.jsonlFile, size |-> Len(s.files[p.jsonlFile])],
              !.hist.owner[p.id] = IF @ = 0 THEN p.terminalName ELSE @,
              !.hist.emitted[p.id] = <<>>,
              !.hist.readFrom[p.id] = 0],
           p.id, p.jsonlFile)
    ELSE startJsonlPoll(
           [Detach(s, p.id) EXCEPT
              !.agents = MapSet(@, p.id,
                  NewAgentState(p.id, p.terminalName, p.jsonlFile, obj)),
              !.knownJsonlFiles = @ \cup {p.jsonlFile},
              !.hist.restored[p.id] = [file |-> p.jsonlFile, size |-> 0],
              !.hist.owner[p.id] = IF @ = 0 THEN p.terminalName ELSE @,
              !.hist.emitted[p.id] = <<>>,
              !.hist.readFrom[p.id] = 0],
           p.id, obj, p.jsonlFile, "restoreAgents")

\* agentManager.ts:174-232, for the persisted entries from the k-th on
RECURSIVE RestoreLoop(_, _, _)
RestoreLoop(s, k, acc) ==
    IF k > Len(s.persisted) THEN [s |-> s, acc |-> acc]
    ELSE IF s.persisted[k].terminalName \notin s.terminals
    THEN RestoreLoop(s, k + 1, acc)
    ELSE RestoreLoop(
           restoreAgent(s, s.persisted[k], NewObj(s, s.persisted[k].id)),
           k + 1,
           [maxId |-> IF s.persisted[k].id > acc.maxId
                      THEN s.persisted[k].id ELSE acc.maxId,
            maxIdx |-> IF s.persisted[k].terminalName > acc.maxIdx
                       THEN s.persisted[k].terminalName ELSE acc.maxIdx,
            restored |-> TRUE])

\* the restore without the advance of the id counter
restoreAgents_IdCounterKept(s) ==
    IF Len(s.persisted) = 0 THEN s
    ELSE
    LET r  == RestoreLoop(s, 1, [maxId |-> 0, maxIdx |-> 0, restored |-> FALSE])
        s1 == r.s
        s3 == IF r.acc.maxIdx >= s1.nextTerminalIndex
              THEN [s1 EXCEPT !.nextTerminalIndex = r.acc.maxIdx + 1] ELSE s1
        s4 == persistAgents(s3)
    IN  IF r.acc.restored THEN ensureProjectScan(s4) ELSE s4

\* agentManager.ts:234-252: the counters are advanced past the restored
\* values, the list is persisted again and, with an agent restored, the
\* directory scan started
finishRestore(r) ==
    IF r.acc.restored
    THEN ensureProjectScan(
           persistAgents(
             [r.s EXCEPT
                !.nextAgentId =
                    IF r.acc.maxId >= @ THEN r.acc.maxId + 1 ELSE @,
                !.nextTerminalIndex =
                    IF r.acc.maxIdx >= @ THEN r.acc.maxIdx + 1 ELSE @]))
    ELSE persistAgents(
           [r.s EXCEPT
              !.nextAgentId =
                  IF r.acc.maxId >= @ THEN r.acc.maxId + 1 ELSE @,
              !.nextTerminalIndex =
                  IF r.acc.maxIdx >= @ THEN r.acc.maxIdx + 1 ELSE @])

\* agentManager.ts:150-253
restoreAgents(s) ==
    IF Len(s.persisted) = 0 THEN s
    ELSE finishRestore(
           RestoreLoop(s, 1, [maxId |-> 0, maxIdx |-> 0, restored |-> FALSE]))

\* the lines of text: the byte strings its newlines end, and the tail after
\* the last newline
RECURSIVE SplitLines(_, _, _)
SplitLines(text, cur, acc) ==
    IF text = <<>> THEN [lines |-> acc, tail |-> cur]
    ELSE IF Head(text) = "\n"
    THEN SplitLines(Tail(text), <<>>, Append(acc, cur))
    ELSE SplitLines(Tail(text), Append(cur, Head(text)), acc)

\* JSON.parse (transcriptParser.ts:56) of the lines the model's log files
\* hold: "a" is a tool_use record, "b" a text record, "ab" a tool_result
\* record, "c" an assistant record with an empty content array, "d" an
\* execution pulse of tool t1; any other byte string is not JSON
JSONParse(line) ==
    CASE line = <<"a">> ->
           Rec("assistant", "", TRUE, <<Block("tool_use", "t1", "Bash")>>,
               "", "", "", "")
      [] line = <<"b">> ->
           Rec("assistant", "", TRUE, <<TextBlock>>, "", "", "", "")
      [] line = <<"a", "b">> ->
           Rec("user", "", TRUE, <<Block("tool_result", "t1", "")>>,
               "", "", "", "")
      [] line = <<"c">> ->
           Rec("assistant", "", TRUE, <<>>, "", "", "", "")
      [] line = <<"d">> ->
           Rec("progress", "", FALSE, <<>>, "", "t1", "bash_progress", "")
      [] OTHER -> Rec("malformed", "", FALSE, <<>>, "", "", "", "")

\* a line handed to the parser with the idle timer left running
recordArrived_TimerKept(s, agentId, record) ==
    LineProcessed(s, agentId, record)

\* readNewLines, one line of new log data: the data ends the silence the
\* idle timer measures (transcriptParser.ts:94-96), so the timer is
\* cancelled, and the line goes to processTranscriptLine
recordArrived(s, agentId, record) ==
    LineProcessed(cancelWaitingTimer(s, agentId), agentId, record)

\* the lines of one read reach the parser in file order
RECURSIVE ProcessLines(_, _, _)
ProcessLines(s, agentId, lines) ==
    IF lines = <<>> THEN s
    ELSE ProcessLines(recordArrived(s, agentId, JSONParse(Head(lines))),
                      agentId, Tail(lines))

\* the part of readNewLines after the read: text is lineBuffer followed by
\* the bytes read, sp its lines and its tail
linesRead(s, agentId, size, readFrom, sp) ==
    ProcessLines(
      [s EXCEPT !.agents[agentId].fileOffset = size,
                !.agents[agentId].lineBuffer = sp.tail,
                !.hist.readFrom[agentId] = readFrom,
                !.hist.emitted[agentId] = @ \o sp.lines],
      agentId, sp.lines)

\* fileWatcher.ts readNewLines, the tailer's read-and-split routine: reads
\* the bytes appended since fileOffset, appends them to lineBuffer, hands the
\* complete lines to the parser and keeps the incomplete tail
readNewLines(s, agentId) ==
    IF ~MapHas(s.agents, agentId) THEN s
    ELSE IF s.agents[agentId].jsonlFile \notin DOMAIN s.files THEN s
    ELSE IF Len(s.files[s.agents[agentId].jsonlFile])
               <= s.agents[agentId].fileOffset THEN s
    ELSE linesRead(
           s, agentId, Len(s.files[s.agents[agentId].jsonlFile]),
           s.agents[agentId].fileOffset
               - Len(s.agents[agentId].lineBuffer) + 1,
           SplitLines(s.agents[agentId].lineBuffer
                          \o SubSeq(s.files[s.agents[agentId].jsonlFile],
                                    s.agents[agentId].fileOffset + 1,
                                    Len(s.files[s.agents[agentId].jsonlFile])),
                      <<>>, <<>>))

\* an existence poll that starts every tailer at the end of the file
jsonlPollCallback_SkipsToEnd(s, iv) ==
    LET file == PollFile(s, iv) IN
    IF file \notin DOMAIN s.files THEN s
    ELSE
    LET s1 == clearInterval(s, "jsonlPoll", iv.id, iv.h)
        s2 == [s1 EXCEPT !.jsonlPollTimers = MapDelete(@, iv.id)]
        s3 == IF MapHas(s2.agents, iv.id) /\ s2.agents[iv.id].obj = iv.obj
              THEN [s2 EXCEPT !.agents[iv.id].fileOffset = Len(s2.files[file])]
              ELSE s2
    IN  IF iv.origin = "launchNewTerminal"
        THEN readNewLines(startFileWatching(s3, iv.id, file), iv.id)
        ELSE startFileWatching(s3, iv.id, file)

\* clearInterval(pollTimer); jsonlPollTimers.delete(id)
\* (agentManager.ts:90-91, :221-222)
pollFound(s, iv) ==
    [clearInterval(s, "jsonlPoll", iv.id, iv.h)
        EXCEPT !.jsonlPollTimers = MapDelete(@, iv.id)]

\* agent.fileOffset = stat.size on the AgentState object the restore's poll
\* holds (agentManager.ts:223-224)
skipToEnd(s, iv, file) ==
    IF MapHas(s.agents, iv.id) /\ s.agents[iv.id].obj = iv.obj
    THEN [s EXCEPT !.agents[iv.id].fileOffset = Len(s.files[file])]
    ELSE s

\* the existence poll's callback (agentManager.ts:86-96 and :217-228);
\* agent is the AgentState object the closure holds
jsonlPollCallback(s, iv) ==
    IF PollFile(s, iv) \notin DOMAIN s.files THEN s
    ELSE IF iv.origin = "launchNewTerminal"
    THEN readNewLines(
           startFileWatching(pollFound(s, iv), iv.id, PollFile(s, iv)),
           iv.id)
    ELSE startFileWatching(skipToEnd(pollFound(s, iv), iv, PollFile(s, iv)),
                           iv.id, PollFile(s, iv))

\* the view provider's onDidCloseTerminal handler, for the agents ids
RECURSIVE CloseLoop(_, _, _)
CloseLoop(s, ids, closed) ==
    IF ids = <<>> THEN s
    ELSE IF /\ MapHas(s.agents, Head(ids))
            /\ s.agents[Head(ids)].terminalRef = closed
    THEN CloseLoop(
           postMessage(
             removeAgent(
               [s EXCEPT !.activeAgentId = IF @ = Head(ids) THEN 0 ELSE @],
               Head(ids)),
             Msg("agentClosed", Head(ids), "", "", "", 0)),
           Tail(ids), closed)
    ELSE CloseLoop(s, Tail(ids), closed)

\* no character has been created in the office
NoCharacter == [id |-> 0]

\* the view provider as constructed
Constructed ==
    [agents |-> EmptyMap, timeouts |-> {},
     waitingTimers |-> EmptyMap, permissionTimers |-> EmptyMap,
     intervals |-> {}, jsonlPollTimers |-> EmptyMap,
     fileWatchers |-> EmptyMap, pollingTimers |-> EmptyMap,
     nextAgentId |-> 1, nextTerminalIndex |-> 1,
     activeAgentId |-> 0, knownJsonlFiles |-> {},
     projectScanTimer |-> 0, persisted |-> <<>>,
     terminals |-> {}, files |-> EmptyMap, disposed |-> FALSE,
     agentTools |-> EmptyMap, ch |-> NoCharacter,
     out |-> <<>>, cleared |-> {}, tag |-> "", hist |-> NoHistory]

\* the program starts in state s
StartsAs(s) ==
    /\ agents = s.agents
    /\ timeouts = s.timeouts
    /\ waitingTimers = s.waitingTimers
    /\ permissionTimers = s.permissionTimers
    /\ intervals = s.intervals
    /\ jsonlPollTimers = s.jsonlPollTimers
    /\ fileWatchers = s.fileWatchers
    /\ pollingTimers = s.pollingTimers
    /\ nextAgentId = s.nextAgentId
    /\ nextTerminalIndex = s.nextTerminalIndex
    /\ activeAgentId = s.activeAgentId
    /\ knownJsonlFiles = s.knownJsonlFiles
    /\ projectScanTimer = s.projectScanTimer
    /\ persisted = s.persisted
    /\ terminals = s.terminals
    /\ files = s.files
    /\ disposed = s.disposed
    /\ agentTools = s.agentTools
    /\ ch = s.ch
    /\ out = <<>>
    /\ cleared = {}
    /\ hist = s.hist
    /\ last = [op |-> "init", id |-> 0, tag |-> ""]

(***************************************************************************)
(* The directory scanner (fileWatcher.ts) and the rest of the view         *)
(* provider's handlers.                                                    *)
(***************************************************************************)
\* a rebinding that goes on where the old file's tailer stood
reassignAgentToFile_Continues(s, agentId, newFile) ==
    IF ~MapHas(s.agents, agentId) THEN s
    ELSE
    LET s5 == newUserPrompt(s, agentId)
        s6 == [s5 EXCEPT !.agents[agentId].jsonlFile = newFile,
                         !.hist.emitted[agentId] = <<>>,
                         !.hist.readFrom[agentId] = 0,
                         !.hist.rebinds =
                             Append(@, [id |-> agentId, file |-> newFile])]
    IN  persistAgents(s6)

\* fileWatcher.ts reassignAgentToFile: the agent's tailer is rebound to
\* newFile at offset 0 with an empty lineBuffer, and the agent's activity is
\* reset as a new text prompt resets it; the new binding is saved with the
\* persistAgents callback the scanner is given (agentManager.ts:79-83)
reassignAgentToFile(s, agentId, newFile) ==
    IF ~MapHas(s.agents, agentId) THEN s
    ELSE startFileWatching(
           persistAgents(
             [newUserPrompt(stopPolling(closeFileWatcher(s, agentId), agentId),
                            agentId)
                EXCEPT !.agents[agentId].jsonlFile = newFile,
                       !.agents[agentId].fileOffset = 0,
                       !.agents[agentId].lineBuffer = <<>>,
                       !.hist.emitted[agentId] = <<>>,
                       !.hist.readFrom[agentId] = 0,
                       !.hist.rebinds =
                           Append(@, [id |-> agentId, file |-> newFile])]),
           agentId, newFile)

\* a scan that rebinds the agent with the lowest id, focused or not
RECURSIVE ScanLoop_LowestId(_, _)
ScanLoop_LowestId(s, dir) ==
    IF dir = <<>> THEN s
    ELSE IF Head(dir) \in s.knownJsonlFiles
    THEN ScanLoop_LowestId(s, Tail(dir))
    ELSE IF DOMAIN s.agents # {}
    THEN ScanLoop_LowestId(
           reassignAgentToFile(
             [s EXCEPT !.knownJsonlFiles = @ \cup {Head(dir)}],
             Min(DOMAIN s.agents), Head(dir)),
           Tail(dir))
    ELSE ScanLoop_LowestId([s EXCEPT !.knownJsonlFiles = @ \cup {Head(dir)}],
                           Tail(dir))

\* the scan's walk over the directory's files
RECURSIVE ScanLoop(_, _)
ScanLoop(s, dir) ==
    IF dir = <<>> THEN s
    ELSE IF Head(dir) \in s.knownJsonlFiles THEN ScanLoop(s, Tail(dir))
    ELSE IF s.activeAgentId # 0
    THEN ScanLoop(
           reassignAgentToFile(
             [s EXCEPT !.knownJsonlFiles = @ \cup {Head(dir)}],
             s.activeAgentId, Head(dir)),
           Tail(dir))
    ELSE ScanLoop([s EXCEPT !.knownJsonlFiles = @ \cup {Head(dir)}],
                  Tail(dir))

\* fileWatcher.ts: the callback of the directory scan's interval
scanForNewJsonlFiles(s) == ScanLoop(s, Ascending(DOMAIN s.files))

\* agentManager.ts:280-304, for the agents ids
RECURSIVE ResendTools(_, _, _)
ResendTools(s, agentId, toolIds) ==
    IF toolIds = <<>> THEN s
    ELSE ResendTools(
             postMessage(s, Msg("agentToolStart", agentId, Head(toolIds), "",
                                s.agents[agentId].activeToolStatuses[Head(toolIds)],
                                0)),
             agentId, Tail(toolIds))

\* agentManager.ts:296-301: the waiting status of agentId is sent again
resendWaiting(s, agentId) ==
    IF s.agents[agentId].isWaiting
    THEN postMessage(s, Msg("agentStatus", agentId, "", "", "waiting", 0))
    ELSE s

RECURSIVE sendCurrentAgentStatuses(_, _)
sendCurrentAgentStatuses(s, ids) ==
    IF ids = <<>> THEN s
    ELSE sendCurrentAgentStatuses(
           resendWaiting(
             ResendTools(s, Head(ids),
                         SetToSeq(DOMAIN s.agents[Head(ids)].activeToolStatuses)),
             Head(ids)),
           Tail(ids))

\* agentManager.ts:255-278
sendExistingAgents(s) ==
    sendCurrentAgentStatuses(
        postMessage(s, Msg("existingAgents", 0, "", "", "", 0)),
        Ascending(DOMAIN s.agents))

\* the view provider's webviewReady branch (part_000:92-217)
webviewReady(s) ==
    sendExistingAgents(
      ensureProjectScan(
        postMessage(restoreAgents(s), Msg("settingsLoaded", 0, "", "", "", 0))))

\* the view provider's dispose()
RECURSIVE DisposeLoop(_, _)
DisposeLoop(s, ids) ==
    IF ids = <<>> THEN s
    ELSE DisposeLoop(removeAgent(s, Head(ids)), Tail(ids))

\* dispose() leaves the scan interval running
stopProjectScan_Leaves(s) == s

\* clearInterval(projectScanTimer.current); projectScanTimer.current = null
stopProjectScan(s) ==
    IF s.projectScanTimer # 0
    THEN [clearInterval(s, "projectScan", 0, s.projectScanTimer)
             EXCEPT !.projectScanTimer = 0]
    ELSE s

dispose(s) == stopProjectScan(DisposeLoop(s, Ascending(DOMAIN s.agents)))

\* the view provider's onDidChangeActiveTerminal handler; terminal 0 is no
\* terminal, or a terminal that hosts no agent
onDidChangeActiveTerminal(s, terminal) ==
    LET s1 == [s EXCEPT !.activeAgentId = 0]
        hosts == {id \in DOMAIN s.agents : s.agents[id].terminalRef = terminal}
    IN  IF terminal = 0 \/ hosts = {} THEN s1
        ELSE LET id == Min(hosts)
             IN  postMessage([s1 EXCEPT !.activeAgentId = id],
                             Msg("agentSelected", id, "", "", "", 0))
(***************************************************************************)
(* SpecReg: the registry from the webview's first webviewReady on: agents  *)
(* are launched (openClaude), the webview is shown again (webviewReady),   *)
(* terminals get the focus and close, agent processes create log files and *)
(* append lines to them, existence polls tick, tailers wake up, the        *)
(* directory scan runs, timeouts fire, the provider is disposed.           *)
(***************************************************************************)
MaxBytes == 4    \* bytes in the log files, all together
MaxFiles == 2    \* log files on disk

\* the lines the agent processes write, and what they append at once:
\* here whole lines
RegLines == {<<"a">>, <<"b">>}
RegChunks == {Append(l, "\n") : l \in RegLines}

\* the webview's openClaude message, while the ids are at most maxId
Launch(maxId) ==
    /\ ~disposed
    /\ nextAgentId <= maxId
    /\ \E s1 \in {Tag(launchNewTerminal(World), "launch")} :
          /\ Cardinality(s1.intervals) <= MaxIntervals
          /\ Commit(s1, "openClaude", nextAgentId)

OpenClaude == Launch(MaxAgents)

\* the webview's webviewReady message
WebviewReady ==
    /\ ~disposed
    /\ \E s1 \in {Tag(webviewReady(World), "restore")} :
          /\ Cardinality(s1.intervals) <= MaxIntervals
          /\ Commit(s1, "webviewReady", 0)

\* a terminal closes (its process ended or the user closed it)
CloseTerminal(closed) ==
    /\ ~disposed
    /\ closed \in terminals
    /\ Commit(Tag(CloseLoop([World EXCEPT !.terminals = @ \ {closed}],
                             Ascending(DOMAIN agents), closed),
                   "closed"),
              "closeTerminal", closed)

\* the focus moves to a terminal, or away from the terminals
ChangeActiveTerminal(terminal) ==
    /\ ~disposed
    /\ terminal \in terminals \cup {0}
    /\ \E s1 \in {onDidChangeActiveTerminal(World, terminal)} :
          /\ s1.activeAgentId # activeAgentId
          /\ Commit(Tag(s1, "focus"), "focus", terminal)

\* the agent process in a live terminal creates the log file it was started
\* with (--session-id)
FileAppears(f) ==
    /\ ~disposed
    /\ f \notin DOMAIN files
    /\ Cardinality(DOMAIN files) < MaxFiles
    /\ \E i \in DOMAIN agents :
          agents[i].jsonlFile = f /\ agents[i].terminalRef \in terminals
    /\ Commit(Tag([World EXCEPT !.files = MapSet(@, f, <<>>)], "fileAppears"),
              "file", f)

\* a conversation reset: the agent process of a live terminal starts a new
\* log file, one nothing was told to expect
NewSession ==
    /\ ~disposed
    /\ terminals # {}
    /\ Cardinality(DOMAIN files) < MaxFiles
    /\ \E f \in {NewUuid(World)} :
          Commit(Tag([World EXCEPT !.files = MapSet(@, f, <<>>)], "newSession"),
                 "file", f)

\* the byte strings that begin a log of the lines in lines
RECURSIVE LogPrefix(_, _)
LogPrefix(text, lines) ==
    \/ \E l \in lines : Len(text) <= Len(l) /\ text = SubSeq(l, 1, Len(text))
    \/ \E l \in lines :
          /\ Len(text) > Len(l)
          /\ SubSeq(text, 1, Len(l) + 1) = Append(l, "\n")
          /\ LogPrefix(SubSeq(text, Len(l) + 2, Len(text)), lines)

\* the bytes the log files names hold
RECURSIVE BytesIn(_)
BytesIn(names) ==
    IF names = {} THEN 0
    ELSE Len(files[Min(names)]) + BytesIn(names \ {Min(names)})

\* an agent process appends chunk to a log file; its log is made of the
\* lines in lines
AppendBytes(f, chunk, lines) ==
    /\ ~disposed
    /\ f \in DOMAIN files
    /\ BytesIn(DOMAIN files) + Len(chunk) <= MaxBytes
    /\ LogPrefix(files[f] \o chunk, lines)
    /\ Commit(Tag([World EXCEPT !.files[f] = @ \o chunk], "append"),
              "append", f)

\* an existence poll finds its file
JsonlPollTick(iv) ==
    /\ ~disposed
    /\ iv \in intervals
    /\ iv.kind = "jsonlPoll"
    /\ PollFile(World, iv) \in DOMAIN files
    /\ \E s1 \in {Tag(jsonlPollCallback(World, iv), "pollFound")} :
          /\ Cardinality(s1.intervals) <= MaxIntervals
          /\ Commit(s1, "jsonlPoll", iv.id)

\* a wake-up source of a tailer (the file watcher or the backup poll) runs
\* readNewLines and there are new bytes to read
WakeUp(iv) ==
    /\ ~disposed
    /\ iv \in intervals
    /\ iv.kind \in {"watcher", "polling"}
    /\ \E s1 \in {readNewLines(World, iv.id)} :
          /\ s1.agents # agents
          /\ Cardinality(DelayedEmissions(s1)) <= MaxPending
          /\ Commit(s1, "wakeUp", iv.id)

\* the directory scan's interval ticks
ScanTick(iv) ==
    /\ ~disposed
    /\ iv \in intervals
    /\ iv.kind = "projectScan"
    /\ DOMAIN files \ knownJsonlFiles # {}
    /\ \E s1 \in {Tag(scanForNewJsonlFiles(World), "scan")} :
          /\ Cardinality(s1.intervals) <= MaxIntervals
          /\ Commit(s1, "scan", activeAgentId)

\* the extension is deactivated
Dispose ==
    /\ ~disposed
    /\ Commit([Tag(dispose(World), "disposed") EXCEPT !.disposed = TRUE],
              "dispose", 0)

\* what an earlier run of the extension left behind: the persisted list,
\* the terminals that are still open and the log files
PriorWorlds ==
    LET entry == [id |-> 1, terminalName |-> 1, jsonlFile |-> 1]
        left(p, t, f) == [Constructed EXCEPT !.persisted = p, !.terminals = t,
                                             !.files = f]
        log == MapSet(EmptyMap, 1, <<"a", "\n">>)
    IN  {Constructed,
         left(<<entry>>, {1}, log),
         left(<<entry>>, {}, log),
         left(<<entry>>, {1}, EmptyMap)}

\* the webview is mounted: its first message is webviewReady
InitReg ==
    \E w \in PriorWorlds : StartsAs([webviewReady(w) EXCEPT !.out = <<>>])

NextReg ==
    \/ OpenClaude
    \/ WebviewReady
    \/ \E closed \in terminals : CloseTerminal(closed)
    \/ \E i \in DOMAIN agents : FileAppears(agents[i].jsonlFile)
    \/ \E f \in DOMAIN files : \E chunk \in RegChunks :
          AppendBytes(f, chunk, RegLines)
    \/ \E iv \in intervals : JsonlPollTick(iv)
    \/ \E iv \in intervals : WakeUp(iv)
    \/ Dispose
    \/ \E t \in timeouts : TimeoutFires(t)

SpecReg == InitReg /\ [][NextReg]_vars

(***************************************************************************)
(* SpecTail: one agent (launched, or restored from the earlier run) and    *)
(* its tailer, byte by byte: the agent process appends single bytes, so    *)
(* that wake-ups meet lines cut mid-write; the conversation is reset (a    *)
(* new log file appears), the focus moves, the directory scan rebinds the  *)
(* focused agent, the webview is shown again.                              *)
(***************************************************************************)
TailLines == {<<"a">>, <<"a", "b">>}
TailChunks == {<<"a">>, <<"b">>, <<"\n">>}

NextTail ==
    \/ Launch(1)
    \/ WebviewReady
    \/ \E terminal \in terminals \cup {0} : ChangeActiveTerminal(terminal)
    \/ \E i \in DOMAIN agents : FileAppears(agents[i].jsonlFile)
    \/ NewSession
    \/ \E f \in DOMAIN files : \E chunk \in TailChunks :
          AppendBytes(f, chunk, TailLines)
    \/ \E iv \in intervals : JsonlPollTick(iv)
    \/ \E iv \in intervals : WakeUp(iv)
    \/ \E iv \in intervals : ScanTick(iv)
    \/ \E t \in timeouts : TimeoutFires(t)

SpecTail == InitReg /\ [][NextTail]_vars

(***************************************************************************)
(* SpecScan: the directory scan among several agents: agents are launched, *)
(* the focus moves between their terminals, log files appear (expected     *)
(* ones and those of a conversation reset) and grow by whole lines, the    *)
(* scan ticks.                                                             *)
(***************************************************************************)
\* the line the agent processes write here: a tool invocation
ScanLine == <<"a">>
ScanChunk == Append(ScanLine, "\n")

NextScan ==
    \/ OpenClaude
    \/ \E terminal \in terminals \cup {0} : ChangeActiveTerminal(terminal)
    \/ \E i \in DOMAIN agents : FileAppears(agents[i].jsonlFile)
    \/ NewSession
    \/ \E f \in DOMAIN files : AppendBytes(f, ScanChunk, {ScanLine})
    \/ \E iv \in intervals : JsonlPollTick(iv)
    \/ \E iv \in intervals : WakeUp(iv)
    \/ \E iv \in intervals : ScanTick(iv)

SpecScan == InitReg /\ [][NextScan]_vars

(***************************************************************************)
(* Spec: one tracked agent (launched, its log file found and tailed),      *)
(* lines of any kind arriving, timeouts firing in any order.               *)
(***************************************************************************)
\* the agent has been launched, its log file has appeared and its existence
\* poll has started the tailer
Tracking ==
    LET s1 == launchNewTerminal(Constructed)
        f  == s1.agents[1].jsonlFile
        s2 == [s1 EXCEPT !.files = MapSet(@, f, <<>>)]
        iv == CHOOSE x \in s2.intervals : x.kind = "jsonlPoll"
    IN  [jsonlPollCallback(s2, iv) EXCEPT !.out = <<>>]

Init == StartsAs(Tracking)

Next ==
    \/ \E record \in Records : ReadLine(1, record)
    \/ \E t \in timeouts : TimeoutFires(t)

Spec == Init /\ [][Next]_vars

(***************************************************************************)
(* SpecSub: the same agent, with the lines of sub-agent (Task) activity:   *)
(* Task / Bash / AskUserQuestion tools started and completed one per       *)
(* record, agent_progress records carrying the sub-agent's blocks.         *)
(***************************************************************************)
SubParentRecords ==
    {Rec("assistant", "", TRUE, <<b>>, "", "", "", "") :
        b \in {Block("tool_use", "t1", "Task"), Block("tool_use", "t2", "Task"),
               Block("tool_use", "t2", "Bash"),
               Block("tool_use", "t2", "AskUserQuestion")}}
    \cup
    {Rec("user", "", TRUE, <<Block("tool_result", i, "")>>, "", "", "", "") :
        i \in ToolIds}
    \cup
    {Rec("user", "", FALSE, <<>>, "hi", "", "", ""),
     Rec("system", "turn_duration", FALSE, <<>>, "", "", "", "")}

SubRecords == SubParentRecords \cup SubagentRecords

NextSub ==
    \/ \E record \in SubRecords : ReadLine(1, record)
    \/ \E t \in timeouts : TimeoutFires(t)

SpecSub == Init /\ [][NextSub]_vars

(***************************************************************************)
(* SpecKinds: the same agent and the same sub-agent activity, every tool   *)
(* id naming one invocation: an id is never announced with two kinds (t1   *)
(* is a Task, t2 a Bash call).  The user records are those of Spec, the    *)
(* ones whose block loop throws on a null block included.                  *)
(***************************************************************************)
KindOf(toolId) == IF toolId = "t1" THEN "Task" ELSE "Bash"

KindRecords ==
    {r \in SubRecords \cup UserRecords :
        r.type = "assistant" =>
            \A k \in DOMAIN r.content :
                r.content[k].type = "tool_use"
                    => r.content[k].name = KindOf(r.content[k].id)}

NextKinds ==
    \/ \E record \in KindRecords : ReadLine(1, record)
    \/ \E t \in timeouts : TimeoutFires(t)

SpecKinds == Init /\ [][NextKinds]_vars

(***************************************************************************)
(* SpecTimed: the same agent with time measured.  A timeout fires when its *)
(* time has run out; time passes up to the next expiry, in one stretch or  *)
(* TickMs at a time, and lines arrive between the stretches.               *)
(***************************************************************************)
TickMs == 1000

TimedRecords ==
    {Rec("assistant", "", TRUE, <<Block("tool_use", "t1", n)>>, "", "", "", "")
        : n \in {"Bash", "Task"}}
    \cup
    {Rec("assistant", "", TRUE, <<TextBlock>>, "", "", "", ""),
     Rec("user", "", FALSE, <<>>, "hi", "", "", ""),
     Rec("system", "turn_duration", FALSE, <<>>, "", "", "", ""),
     Rec("progress", "", FALSE, <<>>, "", "t1", "bash_progress", "")}

TimeoutExpires(t) ==
    /\ t \in timeouts
    /\ t.rem = 0
    /\ t.seq = 1
    /\ LET s0 == [World EXCEPT !.timeouts = Unlink(@, t)]
       IN  Commit(Tag(runTimeout(s0, t), t.kind), "timeout", t.id)

\* the event loop sleeps for d ms: no timeout is due, none comes due before
AdvanceTime(d) ==
    /\ timeouts # {}
    /\ d > 0
    /\ \A t \in timeouts : t.rem >= d
    /\ LET s1 == [World EXCEPT
                    !.timeouts = {[t EXCEPT !.rem = @ - d] : t \in timeouts},
                    !.hist.sinceLine =
                        [i \in DOMAIN @ |->
                            IF i \in DOMAIN agents THEN @[i] + d ELSE @[i]]]
       IN  Commit(Tag(s1, "time"), "time", 0)

NextTimed ==
    \/ \E record \in TimedRecords : ReadLine(1, record)
    \/ \E t \in timeouts : TimeoutExpires(t)
    \/ \E d \in {TickMs} \cup {t.rem : t \in timeouts} : AdvanceTime(d)

InitTimed == StartsAs([Tracking EXCEPT !.hist.timed = TRUE])

SpecTimed == InitTimed /\ [][NextTimed]_vars

(***************************************************************************)
(* The webview (useExtensionMessages.ts): its agentTools state, a list of  *)
(* tool entries per agent id, and the handlers of the messages that change *)
(* it.  The permissionWait mark of an entry is left out.                   *)
(***************************************************************************)
ToolActivity(toolId, status, done) ==
    [toolId |-> toolId, status |-> status, done |-> done]

\* the handler appending an entry for every agentToolStart
onAgentToolStart_NoDedupe(prev, msg) ==
    MapSet(prev, msg.id,
           Append(IF MapHas(prev, msg.id) THEN prev[msg.id] ELSE <<>>,
                  ToolActivity(msg.toolId, msg.status, FALSE)))

\* useExtensionMessages.ts:147-155
onAgentToolStart(prev, msg) ==
    IF /\ MapHas(prev, msg.id)
       /\ \E k \in DOMAIN prev[msg.id] : prev[msg.id][k].toolId = msg.toolId
    THEN prev
    ELSE MapSet(prev, msg.id,
                Append(IF MapHas(prev, msg.id) THEN prev[msg.id] ELSE <<>>,
                       ToolActivity(msg.toolId, msg.status, FALSE)))

\* useExtensionMessages.ts:169-179
onAgentToolDone(prev, msg) ==
    IF ~MapHas(prev, msg.id) THEN prev
    ELSE [prev EXCEPT ![msg.id] =
            [k \in DOMAIN @ |->
                IF @[k].toolId = msg.toolId
                THEN [@[k] EXCEPT !.done = TRUE] ELSE @[k]]]

\* useExtensionMessages.ts:180-186 (agentToolsClear) and :103-111
\* (agentClosed)
onAgentToolsClear(prev, msg) ==
    IF ~MapHas(prev, msg.id) THEN prev ELSE MapDelete(prev, msg.id)

\* the message handler of useExtensionMessages.ts, for agentTools
onMessage(prev, msg) ==
    CASE msg.type = "agentToolStart" -> onAgentToolStart(prev, msg)
      [] msg.type = "agentToolDone" -> onAgentToolDone(prev, msg)
      [] msg.type \in {"agentToolsClear", "agentClosed"} ->
           onAgentToolsClear(prev, msg)
      [] OTHER -> prev

\* the webview handles the messages a step posted, in the order posted
RECURSIVE Deliver(_, _)
Deliver(prev, msgs) ==
    IF msgs = <<>> THEN prev
    ELSE Deliver(onMessage(prev, Head(msgs)), Tail(msgs))

Rendered(s) == [s EXCEPT !.agentTools = Deliver(@, s.out)]

\* the tool ids a record announces
AnnouncedIds(record) ==
    IF record.type = "assistant" /\ record.isArray
    THEN {record.content[k].id :
            k \in {j \in DOMAIN record.content :
                      record.content[j].type = "tool_use"}}
    ELSE {}

(***************************************************************************)
(* SpecView: the agent of Spec with the webview handling the messages of   *)
(* every step.  Tool ids name one invocation each: the log announces no id *)
(* that it has announced before or that a tool-result has named before.    *)
(***************************************************************************)
ViewLine(agentId, record) ==
    /\ agentId \in DOMAIN agents
    /\ AnnouncedIds(record)
           \cap (hist.started[agentId] \cup hist.completed[agentId]) = {}
    /\ \E s2 \in {LineProcessed(World, agentId, record)} :
          /\ Cardinality(DelayedEmissions(s2)) <= MaxPending
          /\ Commit(Rendered(s2), "line", agentId)

ViewTimeout(t) ==
    /\ t \in timeouts
    /\ t.seq = 1
    /\ Commit(Rendered(Tag(runTimeout([World EXCEPT !.timeouts = Unlink(@, t)],
                                       [t EXCEPT !.rem = 0]),
                            t.kind)),
              "timeout", t.id)

NextView ==
    \/ \E record \in Records : ViewLine(1, record)
    \/ \E t \in timeouts : ViewTimeout(t)

SpecView == Init /\ [][NextView]_vars

(***************************************************************************)
(* SpecFocus: the registry and the focus: agents are launched, the webview *)
(* is shown again, the focus moves between the terminals and away from     *)
(* them, terminals close, the provider is disposed.                        *)
(***************************************************************************)
NextFocus ==
    \/ OpenClaude
    \/ WebviewReady
    \/ \E terminal \in terminals \cup {0} : ChangeActiveTerminal(terminal)
    \/ \E closed \in terminals : CloseTerminal(closed)
    \/ Dispose

SpecFocus == InitReg /\ [][NextFocus]_vars

(***************************************************************************)
(* SpecClose: the agent and its sub-agent activity as in SpecKinds, and    *)
(* the agent's terminal may close at any moment: the view provider's       *)
(* onDidCloseTerminal handler removes the agent, and the timeouts that are *)
(* still in the event loop's list fire afterwards.                         *)
(***************************************************************************)
NextClose ==
    \/ \E record \in KindRecords : ReadLine(1, record)
    \/ \E closed \in terminals : CloseTerminal(closed)
    \/ \E t \in timeouts : TimeoutFires(t)

SpecClose == Init /\ [][NextClose]_vars

(***************************************************************************)
(* SpecIdle: the same agent with time measured and its log file tailed:    *)
(* the agent process appends whole lines (a text record, an assistant      *)
(* record without blocks, an execution pulse), a wake-up of the tailer     *)
(* reads them, and time passes in between.                                 *)
(***************************************************************************)
IdleLines == {<<"b">>, <<"c">>, <<"d">>}
IdleChunks == {Append(l, "\n") : l \in IdleLines}

NextIdle ==
    \/ \E f \in DOMAIN files : \E chunk \in IdleChunks :
          AppendBytes(f, chunk, IdleLines)
    \/ \E iv \in intervals : WakeUp(iv)
    \/ \E t \in timeouts : TimeoutExpires(t)
    \/ \E d \in {TickMs} \cup {t.rem : t \in timeouts} : AdvanceTime(d)

SpecIdle == InitTimed /\ [][NextIdle]_vars

(***************************************************************************)
(* The office engine of the webview (characters.ts): the Character of      *)
(* agent 1 on a small office.  Time is counted in ticks, TicksPerSec to    *)
(* the second; moveProgress is counted in pixels per tick-second, so that  *)
(* a tile is crossed when it reaches TicksPerSec * TILE_SIZE.  The fields  *)
(* that only the renderer reads (x, y, frame, frameTimer, palette, the     *)
(* bubble and the matrix effect) are left out: no branch tests them.       *)
(***************************************************************************)
TicksPerSec == 4
MaxDt == 2            \* an animation frame lasts 1..MaxDt ticks
RandomSpread == 1     \* a random draw takes its least value or up to this more
MaxWanderCount == 4   \* moves counted before the model stops counting

TILE_SIZE == 16
WALK_SPEED_PX_PER_SEC == 48
WANDER_PAUSE_MIN_SEC == 2
WANDER_PAUSE_MAX_SEC == 20
WANDER_MOVES_BEFORE_REST_MIN == 3
WANDER_MOVES_BEFORE_REST_MAX == 6
SEAT_REST_MIN_SEC == 120
SEAT_REST_MAX_SEC == 240

\* the office: 4 x 3 floor tiles, a desk on three of them in one corner
OfficeTiles == (0..3) \X (0..2)
blockedTiles == {<<2, 0>>, <<3, 0>>, <<3, 1>>}
walkableTiles == OfficeTiles \ blockedTiles

\* seats: Map<string, Seat>; "s1" can be walked to, "s2" is closed in by the
\* desk, and no seat has the uid "s9"
seats ==
    [s1 |-> [seatCol |-> 0, seatRow |-> 2, facingDir |-> "UP"],
     s2 |-> [seatCol |-> 3, seatRow |-> 0, facingDir |-> "LEFT"]]
SeatIds == {"", "s1", "s2", "s9"}

\* seats.get(seatId): the seat, or nothing (undefined)
seatsGet(seatId) ==
    IF seatId \in DOMAIN seats THEN {seats[seatId]} ELSE {}

\* tileMap.ts: a tile inside the map that is floor and not blocked
isWalkable(col, row) == <<col, row>> \in walkableTiles

Neighbors(p) ==
    {<<p[1], p[2] - 1>>, <<p[1], p[2] + 1>>,
     <<p[1] - 1, p[2]>>, <<p[1] + 1, p[2]>>}

\* the breadth-first search from a tile: the tiles first seen in each round
RECURSIVE Rounds(_, _)
Rounds(seen, frontier) ==
    IF frontier = {} THEN <<>>
    ELSE <<frontier>>
         \o Rounds(seen \cup frontier,
                   {q \in walkableTiles \ (seen \cup frontier) :
                       Neighbors(q) \cap frontier # {}})

RoundsFrom == <<>> @@ [from \in OfficeTiles |-> Rounds({}, {from})]

\* the number of moves of a shortest way, -1 when there is none
Distance ==
    <<>> @@
    [from \in OfficeTiles, to \in OfficeTiles |->
        IF \E k \in DOMAIN RoundsFrom[from] : to \in RoundsFrom[from][k]
        THEN (CHOOSE k \in DOMAIN RoundsFrom[from] :
                 to \in RoundsFrom[from][k]) - 1
        ELSE -1]

RECURSIVE ShortestWays(_, _)
ShortestWays(from, to) ==
    IF from = to THEN {<<>>}
    ELSE UNION {{<<n>> \o w : w \in ShortestWays(n, to)} :
                   n \in {q \in Neighbors(from) \cap walkableTiles :
                             Distance[q, to] = Distance[from, to] - 1}}

\* tileMap.ts findPath: breadth-first search over the four neighbours; the
\* way without its first tile, empty when the target is the start, is not
\* walkable or cannot be reached.  Which of several shortest ways the search
\* returns is left open.
findPath ==
    <<>> @@
    [from \in OfficeTiles, to \in OfficeTiles |->
        IF from = to \/ to \notin walkableTiles \/ Distance[from, to] < 0
        THEN {<<>>}
        ELSE ShortestWays(from, to)]

\* characters.ts:34-41
directionBetween(fromCol, fromRow, toCol, toRow) ==
    IF toCol - fromCol > 0 THEN "RIGHT"
    ELSE IF toCol - fromCol < 0 THEN "LEFT"
    ELSE IF toRow - fromRow > 0 THEN "DOWN"
    ELSE "UP"

\* characters.ts:328-330, in ticks
randomRange(min, max) ==
    {t \in (min * TicksPerSec)..(max * TicksPerSec) :
        t <= min * TicksPerSec + RandomSpread}

\* characters.ts:332-334
randomInt(min, max) == {n \in min..max : n <= min + RandomSpread}

\* characters.ts:43-82: the seat is seats.get(seatId), or null
createCharacter(id, seatId) ==
    {[id |-> id, state |-> "TYPE",
      dir |-> IF seatsGet(seatId) = {} THEN "DOWN" ELSE seats[seatId].facingDir,
      tileCol |-> IF seatsGet(seatId) = {} THEN 1 ELSE seats[seatId].seatCol,
      tileRow |-> IF seatsGet(seatId) = {} THEN 1 ELSE seats[seatId].seatRow,
      path |-> <<>>, moveProgress |-> 0,
      wanderTimer |-> 0, wanderCount |-> 0, wanderLimit |-> l,
      isActive |-> FALSE, seatId |-> seatId, seatTimer |-> 0] :
        l \in randomInt(WANDER_MOVES_BEFORE_REST_MIN,
                        WANDER_MOVES_BEFORE_REST_MAX)}

atSeat(c) ==
    \E seat \in seatsGet(c.seatId) :
        c.tileCol = seat.seatCol /\ c.tileRow = seat.seatRow

Walking(c, path) ==
    [c EXCEPT !.path = path, !.moveProgress = 0, !.state = "WALK"]

\* characters.ts:95-115, case TYPE
updateTYPE(c, dt) ==
    IF c.isActive THEN {c}
    ELSE IF c.seatTimer > 0 THEN {[c EXCEPT !.seatTimer = @ - dt]}
    ELSE {[c EXCEPT !.seatTimer = 0, !.state = "IDLE", !.wanderTimer = r,
                    !.wanderCount = 0, !.wanderLimit = l] :
             r \in randomRange(WANDER_PAUSE_MIN_SEC, WANDER_PAUSE_MAX_SEC),
             l \in randomInt(WANDER_MOVES_BEFORE_REST_MIN,
                             WANDER_MOVES_BEFORE_REST_MAX)}

\* characters.ts:121-147, case IDLE of a character that is active
updateIDLE_Active(c) ==
    IF c.seatId = "" THEN {[c EXCEPT !.state = "TYPE"]}
    ELSE IF seatsGet(c.seatId) = {} THEN {c}
    ELSE {IF Len(path) > 0 THEN Walking(c, path)
          ELSE [c EXCEPT !.state = "TYPE", !.dir = seats[c.seatId].facingDir] :
             path \in findPath[<<c.tileCol, c.tileRow>>,
                               <<seats[c.seatId].seatCol,
                                 seats[c.seatId].seatRow>>]}

\* characters.ts:167-205: wander to a random walkable tile; a character
\* with no walkable neighbour is first put on the closest walkable tile
hasExit(c) ==
    \E n \in Neighbors(<<c.tileCol, c.tileRow>>) : isWalkable(n[1], n[2])

Manhattan(c, t) ==
    (IF t[1] >= c.tileCol THEN t[1] - c.tileCol ELSE c.tileCol - t[1])
    + (IF t[2] >= c.tileRow THEN t[2] - c.tileRow ELSE c.tileRow - t[2])

Closest(c) ==
    {t \in walkableTiles :
        \A u \in walkableTiles : Manhattan(c, t) <= Manhattan(c, u)}

Wandered(c, path) ==
    IF Len(path) > 0
    THEN [Walking(c, path) EXCEPT !.wanderCount = @ + 1]
    ELSE c

Wander(c) ==
    UNION {UNION {
        IF Len(path) = 0 /\ ~hasExit(c)
        THEN UNION {UNION {
                 {Wandered([c EXCEPT !.tileCol = closest[1],
                                     !.tileRow = closest[2]], path2) :
                     path2 \in findPath[closest, newTarget]} :
                 newTarget \in walkableTiles} :
                 closest \in Closest(c)}
        ELSE {Wandered(c, path)} :
        path \in findPath[<<c.tileCol, c.tileRow>>, target]} :
        target \in walkableTiles}

\* characters.ts:149-207, case IDLE of a character that is not active, the
\* wander timer already counted down
updateIDLE_Wander(c) ==
    LET rest == IF c.wanderCount >= c.wanderLimit /\ c.seatId # ""
                   /\ seatsGet(c.seatId) # {}
                THEN findPath[<<c.tileCol, c.tileRow>>,
                              <<seats[c.seatId].seatCol,
                                seats[c.seatId].seatRow>>]
                ELSE {<<>>}
    IN  UNION {IF Len(path) > 0 THEN {Walking(c, path)}
               ELSE {[w EXCEPT !.wanderTimer = r] :
                        w \in Wander(c),
                        r \in randomRange(WANDER_PAUSE_MIN_SEC,
                                          WANDER_PAUSE_MAX_SEC)} :
               path \in rest}

\* characters.ts:117-209, case IDLE
updateIDLE(c0, dt) ==
    LET c == [c0 EXCEPT !.seatTimer = IF @ < 0 THEN 0 ELSE @]
    IN  IF c.isActive THEN updateIDLE_Active(c)
        ELSE IF c.wanderTimer - dt > 0
        THEN {[c EXCEPT !.wanderTimer = @ - dt]}
        ELSE updateIDLE_Wander([c EXCEPT !.wanderTimer = @ - dt])

\* characters.ts:222-268, case WALK with the path walked to its end
updateWALK_Arrived(c) ==
    IF c.isActive
    THEN IF c.seatId = "" THEN {[c EXCEPT !.state = "TYPE"]}
         ELSE IF atSeat(c)
         THEN {[c EXCEPT !.state = "TYPE", !.dir = seats[c.seatId].facingDir]}
         ELSE {[c EXCEPT !.state = "IDLE"]}
    ELSE IF c.seatId # "" /\ atSeat(c)
    THEN {[c EXCEPT !.state = "TYPE", !.dir = seats[c.seatId].facingDir,
                    !.seatTimer = IF c.seatTimer < 0 THEN 0 ELSE r,
                    !.wanderCount = 0, !.wanderLimit = l] :
             r \in randomRange(SEAT_REST_MIN_SEC, SEAT_REST_MAX_SEC),
             l \in randomInt(WANDER_MOVES_BEFORE_REST_MIN,
                             WANDER_MOVES_BEFORE_REST_MAX)}
    ELSE {[c EXCEPT !.state = "IDLE", !.wanderTimer = r] :
             r \in randomRange(WANDER_PAUSE_MIN_SEC, WANDER_PAUSE_MAX_SEC)}

\* characters.ts:270-290: move toward the next tile of the path
Moved(c, dt) ==
    LET progress == c.moveProgress + WALK_SPEED_PX_PER_SEC * dt
        turned == [c EXCEPT !.dir = directionBetween(c.tileCol, c.tileRow,
                                                     c.path[1][1], c.path[1][2])]
    IN  IF progress >= TicksPerSec * TILE_SIZE
        THEN [turned EXCEPT !.tileCol = c.path[1][1], !.tileRow = c.path[1][2],
                            !.path = Tail(c.path), !.moveProgress = 0]
        ELSE [turned EXCEPT !.moveProgress = progress]

\* characters.ts:292-305: if became active while wandering, repath to seat
Repathed(c) ==
    IF c.isActive /\ c.seatId # "" /\ seatsGet(c.seatId) # {}
       /\ (c.path = <<>>
           \/ c.path[Len(c.path)]
                # <<seats[c.seatId].seatCol, seats[c.seatId].seatRow>>)
    THEN {IF Len(newPath) > 0
          THEN [c EXCEPT !.path = newPath, !.moveProgress = 0]
          ELSE c :
             newPath \in findPath[<<c.tileCol, c.tileRow>>,
                                  <<seats[c.seatId].seatCol,
                                    seats[c.seatId].seatRow>>]}
    ELSE {c}

\* characters.ts:215-307, case WALK
updateWALK(c, dt) ==
    IF Len(c.path) = 0 THEN updateWALK_Arrived(c)
    ELSE Repathed(Moved(c, dt))

\* characters.ts:84-309: the characters one update of dt ticks can leave
updateCharacter(c, dt) ==
    CASE c.state = "TYPE" -> updateTYPE(c, dt)
      [] c.state = "IDLE" -> updateIDLE(c, dt)
      [] c.state = "WALK" -> updateWALK(c, dt)

\* officeState.setAgentActive: the agent starts or ends a turn; ending one
\* leaves the sentinel seatTimer < 0 that characters.ts:248-249 describes
setAgentActive(c, active) ==
    IF active THEN [c EXCEPT !.isActive = TRUE]
    ELSE [c EXCEPT !.isActive = FALSE, !.seatTimer = -1]

\* one animation frame of dt ticks
UpdateCharacter(dt) ==
    \E c2 \in updateCharacter(ch, dt) :
        /\ c2.wanderCount <= MaxWanderCount
        /\ Commit([World EXCEPT !.ch = c2], "updateCharacter", ch.id)

\* the agent of the character starts or ends a turn
SetAgentActive(active) ==
    /\ ch.isActive # active
    /\ Commit([World EXCEPT !.ch = setAgentActive(ch, active)],
              "setAgentActive", ch.id)

\* the character of agent 1 as created, with any seat assignment
InitChar ==
    \E seatId \in SeatIds : \E c \in createCharacter(1, seatId) :
        StartsAs([Tracking EXCEPT !.ch = c])

NextChar ==
    \/ \E dt \in 1..MaxDt : UpdateCharacter(dt)
    \/ \E active \in BOOLEAN : SetAgentActive(active)

\* the render loop calls updateCharacter on every animation frame
SpecChar ==
    InitChar /\ [][NextChar]_vars
    /\ WF_vars(\E dt \in 1..MaxDt : UpdateCharacter(dt))

(***************************************************************************)
(* What the properties below read.                                         *)
(***************************************************************************)
LiveTimers(kind, agentId) ==
    {t \in timeouts : t.kind = kind /\ t.id = agentId}

\* c: the timeouts a step cancelled, each with the time it had left
Cancelled(c, kind) == \E x \in c : x.kind = kind

Posted(type) == {k \in 1..Len(out) : out[k].type = type}

\* the part of the state a handler can change for the agent
AgentView(agentId) ==
    <<agents[agentId], LiveTimers("waiting", agentId),
      LiveTimers("permission", agentId),
      MapHas(waitingTimers, agentId), MapHas(permissionTimers, agentId)>>

(***************************************************************************)
(* C1.  After a system/turn_duration record is processed the agent has     *)
(* isWaiting = true, an empty active tool set, hadToolsInTurn = false,     *)
(* permissionSent = false and no pending idle or stall timer; a second     *)
(* turn_duration record processed immediately afterwards changes no agent  *)
(* state.                                                                  *)
(***************************************************************************)
TurnDurationReset(agentId) ==
    /\ agents[agentId].isWaiting
    /\ agents[agentId].activeToolIds = {}
    /\ ~agents[agentId].hadToolsInTurn
    /\ ~agents[agentId].permissionSent
    /\ LiveTimers("waiting", agentId) = {}
    /\ LiveTimers("permission", agentId) = {}
    /\ ~MapHas(waitingTimers, agentId)
    /\ ~MapHas(permissionTimers, agentId)

C1_TurnDurationResets ==
    /\ [](last.tag = "turnDuration" => TurnDurationReset(last.id))
    /\ [][(last.tag = "turnDuration" /\ last'.tag = "turnDuration")
            => (agents' = agents /\ timeouts' = timeouts
                /\ waitingTimers' = waitingTimers
                /\ permissionTimers' = permissionTimers)]_vars

\* a turn_duration record that found tools active and a stall timer live
C1_Witness ==
    /\ last.tag = "turnDuration"
    /\ Cancelled(cleared, "permission")
    /\ Posted("agentToolsClear") # {}
    /\ Cardinality(DelayedEmissions(World)) > 0

(***************************************************************************)
(* C2.  The active tool set never contains a tool id whose tool-result     *)
(* block has been processed (since the id was last started).               *)
(***************************************************************************)
C2_CompletedNotActive ==
    \A agentId \in DOMAIN agents :
        hist.completed[agentId] \cap agents[agentId].activeToolIds = {}

\* a tool-result record completed one tool while another stays active
C2_Witness ==
    /\ last.tag = "toolResults"
    /\ hist.completed[1] # {}
    /\ agents[1].activeToolIds # {}
    /\ \E t \in DelayedEmissions(World) : t.toolId \in hist.completed[1]

(***************************************************************************)
(* C3.  Each agent has at most one live idle (waiting) timer and at most   *)
(* one live stall (permission) timer, the one whose handle the timer map   *)
(* holds; a step that starts a timer of a kind while one is live cancels   *)
(* the live one, so only the timer started last can fire.                  *)
(***************************************************************************)
OneLiveTimer(kind, map, agentId) ==
    /\ Cardinality(LiveTimers(kind, agentId)) <= 1
    /\ MapHas(map, agentId) <=> LiveTimers(kind, agentId) # {}
    /\ \A t \in LiveTimers(kind, agentId) : map[agentId] = t.h

StartsPermissionTimer ==
    {"toolsNonExempt", "pulse", "subToolsNonExempt", "subResultsRestart"}

C3_OneTimerPerKind ==
    /\ [](\A agentId \in 1..MaxAgents :
            /\ OneLiveTimer("waiting", waitingTimers, agentId)
            /\ OneLiveTimer("permission", permissionTimers, agentId))
    /\ [][\A agentId \in DOMAIN agents :
            /\ (last'.id = agentId /\ last'.tag \in StartsPermissionTimer
                    /\ LiveTimers("permission", agentId) # {})
                => (Cancelled(cleared', "permission")
                    /\ Cardinality(LiveTimers("permission", agentId)') = 1)
            /\ (last'.id = agentId /\ last'.tag = "textIdle"
                    /\ LiveTimers("waiting", agentId) # {})
                => (Cancelled(cleared', "waiting")
                    /\ Cardinality(LiveTimers("waiting", agentId)') = 1)]_vars

\* a pulse restarted the stall timer: the old one was cancelled, one is live
C3_Witness ==
    /\ last.tag = "pulse"
    /\ Cancelled(cleared, "permission")
    /\ Cardinality(LiveTimers("permission", 1)) = 1
    /\ MapHas(permissionTimers, 1)

(***************************************************************************)
(* C9.  While permissionSent is true for an agent (a stall event was       *)
(* emitted and neither a user prompt nor a turn_duration record has        *)
(* cleared the flag), no step emits a further stall event for that agent.  *)
(***************************************************************************)
StallPosted(msgs, agentId) ==
    \E k \in 1..Len(msgs) :
        msgs[k].type = "agentToolPermission" /\ msgs[k].id = agentId

C9_NoDuplicateStall ==
    [][\A agentId \in DOMAIN agents :
          agents[agentId].permissionSent => ~StallPosted(out', agentId)]_vars

(***************************************************************************)
(* C8.  A stall event, or a nested sub-task stall event, is emitted only   *)
(* by the expiry of the stall timer and only when, at that moment, some    *)
(* active parent tool or nested sub-task tool is of a kind other than Task *)
(* and AskUserQuestion; an expiry that finds every active tool exempt, or  *)
(* nothing active, emits nothing and leaves permissionSent unchanged.      *)
(***************************************************************************)
ExemptKinds == {"Task", "AskUserQuestion"}

SomeNonExemptActive(agent) ==
    \/ \E toolId \in agent.activeToolIds :
          agent.activeToolNames[toolId] \notin ExemptKinds
    \/ \E parentToolId \in DOMAIN agent.activeSubagentToolNames :
          \E subId \in DOMAIN agent.activeSubagentToolNames[parentToolId] :
              agent.activeSubagentToolNames[parentToolId][subId]
                  \notin ExemptKinds

AnyStallPosted(msgs, agentId) ==
    \E k \in 1..Len(msgs) :
        /\ msgs[k].type \in {"agentToolPermission", "subagentToolPermission"}
        /\ msgs[k].id = agentId

C8_StallOnlyForNonExempt ==
    [][\A agentId \in DOMAIN agents :
          /\ AnyStallPosted(out', agentId)
                => (last'.tag = "permission" /\ last'.id = agentId
                    /\ SomeNonExemptActive(agents[agentId]))
          /\ (last'.tag = "permission" /\ last'.id = agentId
                /\ ~SomeNonExemptActive(agents[agentId]))
                => (out' = <<>>
                    /\ agents'[agentId].permissionSent
                           = agents[agentId].permissionSent)]_vars

\* the stall timer expired over a Task whose only nested tool is exempt
C8_Witness ==
    /\ last.tag = "permission"
    /\ out = <<>>
    /\ agents[1].activeToolIds # {}
    /\ \E p \in DOMAIN agents[1].activeSubagentToolNames :
          \E sub \in DOMAIN agents[1].activeSubagentToolNames[p] :
              agents[1].activeSubagentToolNames[p][sub] = "AskUserQuestion"

(***************************************************************************)
(* C4.  A tool-done event for a tool id is emitted only if a tool-start    *)
(* event for the same id was emitted earlier for that agent, and it is     *)
(* emitted TOOL_DONE_DELAY_MS after the tool-result record was processed.  *)
(***************************************************************************)
C4_DoneAfterStart ==
    \A k \in 1..Len(out) :
        out[k].type = "agentToolDone"
            => /\ out[k].toolId \in hist.started[out[k].id]
               /\ out[k].after = TOOL_DONE_DELAY_MS

(***************************************************************************)
(* C5.  After a text-only assistant record is processed for an agent whose *)
(* hadToolsInTurn is false, and while no further record is processed: no   *)
(* 'waiting' event is emitted before TEXT_IDLE_DELAY_MS have passed (the   *)
(* idle timer is live with the rest of the delay left), and once the timer *)
(* is gone exactly one 'waiting' event was emitted, after the whole delay, *)
(* and isWaiting is true.                                                  *)
(***************************************************************************)
C5_IdleFallback ==
    \A agentId \in DOMAIN agents :
        hist.lineTag[agentId] = "textIdle" =>
            LET e == hist.sinceLine[agentId]
                live == LiveTimers("waiting", agentId)
            IN  /\ hist.waitingSinceLine[agentId] <= 1
                /\ e < TEXT_IDLE_DELAY_MS
                      => /\ hist.waitingSinceLine[agentId] = 0
                         /\ \E t \in live : t.rem = TEXT_IDLE_DELAY_MS - e
                /\ live = {}
                      => /\ hist.waitingSinceLine[agentId] = 1
                         /\ agents[agentId].isWaiting
                         /\ e = TEXT_IDLE_DELAY_MS
                /\ (last.tag = "waiting" /\ last.id = agentId)
                      => out = <<Msg("agentStatus", agentId, "", "", "waiting",
                                     TEXT_IDLE_DELAY_MS)>>

\* the idle timer of a text-only record has just expired
C5_Witness ==
    /\ hist.lineTag[1] = "textIdle"
    /\ last.tag = "waiting"
    /\ hist.sinceLine[1] = TEXT_IDLE_DELAY_MS
    /\ hist.waitingSinceLine[1] = 1
    /\ agents[1].isWaiting

(***************************************************************************)
(* C6.  After an assistant record starts a non-exempt tool, and while no   *)
(* further record (or pulse) is processed: no stall event is emitted       *)
(* before PERMISSION_TIMER_DELAY_MS have passed (the stall timer is live   *)
(* with the rest of the delay left), and once the timer is gone exactly    *)
(* one stall event was emitted, permissionSent is true, and no stall timer *)
(* is left to emit a second.                                               *)
(***************************************************************************)
C6_StallAfterDelay ==
    \A agentId \in DOMAIN agents :
        hist.lineTag[agentId] = "toolsNonExempt" =>
            LET e == hist.sinceLine[agentId]
                live == LiveTimers("permission", agentId)
            IN  /\ hist.stallSinceLine[agentId] <= 1
                /\ e < PERMISSION_TIMER_DELAY_MS
                      => /\ hist.stallSinceLine[agentId] = 0
                         /\ \E t \in live :
                               t.rem = PERMISSION_TIMER_DELAY_MS - e
                /\ live = {}
                      => /\ hist.stallSinceLine[agentId] = 1
                         /\ agents[agentId].permissionSent
                         /\ e = PERMISSION_TIMER_DELAY_MS
                         /\ ~MapHas(permissionTimers, agentId)

\* the stall timer of a non-exempt tool start has just expired
C6_Witness ==
    /\ hist.lineTag[1] = "toolsNonExempt"
    /\ last.tag = "permission"
    /\ hist.sinceLine[1] = PERMISSION_TIMER_DELAY_MS
    /\ hist.stallSinceLine[1] = 1
    /\ agents[1].permissionSent
    /\ StallPosted(out, 1)

(***************************************************************************)
(* C7.  After a bash_progress / mcp_progress pulse whose parent id is      *)
(* active is processed, and while no further record is processed: exactly  *)
(* one stall timer is live, with PERMISSION_TIMER_DELAY_MS less the time   *)
(* since the pulse left, whatever the timer it replaced had left; no stall *)
(* event is emitted before a full delay has passed since the pulse.        *)
(***************************************************************************)
C7_PulseRestartsStallTimer ==
    \A agentId \in DOMAIN agents :
        hist.lineTag[agentId] = "pulse" =>
            LET e == hist.sinceLine[agentId]
                live == LiveTimers("permission", agentId)
            IN  /\ e < PERMISSION_TIMER_DELAY_MS
                      => /\ hist.stallSinceLine[agentId] = 0
                         /\ Cardinality(live) = 1
                         /\ \A t \in live :
                               t.rem = PERMISSION_TIMER_DELAY_MS - e
                /\ hist.stallSinceLine[agentId] > 0
                      => e = PERMISSION_TIMER_DELAY_MS

\* a pulse replaced a stall timer that had run for part of its delay
C7_Witness ==
    /\ last.tag = "pulse"
    /\ \E c \in cleared :
          /\ c.kind = "permission"
          /\ c.rem > 0 /\ c.rem < PERMISSION_TIMER_DELAY_MS
    /\ \E t \in LiveTimers("permission", 1) :
          t.rem = PERMISSION_TIMER_DELAY_MS

(***************************************************************************)
(* C10.  When removeAgent(id) has completed, no idle timer, stall timer,   *)
(* existence poll or tailer wake-up source (file watcher, backup poll) of  *)
(* id is live, and id is absent from the registry, from the timer maps and *)
(* from the persisted snapshot, whatever launches, restores and records    *)
(* came before.                                                            *)
(***************************************************************************)
Gone(agentId) ==
    /\ agentId \notin DOMAIN agents
    /\ LiveTimers("waiting", agentId) = {}
    /\ LiveTimers("permission", agentId) = {}
    /\ \A iv \in intervals :
          iv.kind \in {"jsonlPoll", "watcher", "polling"} => iv.id # agentId
    /\ ~MapHas(waitingTimers, agentId) /\ ~MapHas(permissionTimers, agentId)
    /\ ~MapHas(jsonlPollTimers, agentId) /\ ~MapHas(fileWatchers, agentId)
    /\ ~MapHas(pollingTimers, agentId)
    /\ \A k \in 1..Len(persisted) : persisted[k].id # agentId

C10_RemovedAgentIsGone ==
    [][\A agentId \in DOMAIN agents :
          agentId \notin DOMAIN agents' => Gone(agentId)']_vars

(***************************************************************************)
(* C11.  Every id launchNewTerminal assigns is greater than every id that  *)
(* was assigned or restored before in the life of the registry, and an id  *)
(* stays with the terminal it was first given to: no id goes to a second   *)
(* agent, also not after the first one was removed.                        *)
(***************************************************************************)
CreatedIds(msgs) ==
    {msgs[k].id : k \in {j \in 1..Len(msgs) : msgs[j].type = "agentCreated"}}

GivenOut == {i \in 1..MaxAgents : hist.owner[i] # 0}

C11_IdsIncrease ==
    /\ [](\A id \in DOMAIN agents : agents[id].terminalRef = hist.owner[id])
    /\ [][\A id \in CreatedIds(out') : \A i \in GivenOut : id > i]_vars

\* an id is assigned after an earlier agent was restored and removed
C11_Witness ==
    /\ CreatedIds(out) # {}
    /\ \E i \in GivenOut : i \notin DOMAIN agents /\ hist.restored[i].file # 0

(***************************************************************************)
(* C12.  A restored agent replays nothing: as long as it is bound to the   *)
(* file it was restored for, its read offset is at least the size the file *)
(* had at the restore and every read of its tailer starts behind that      *)
(* size, so no line that was in the file before the restore reaches the    *)
(* parser (no tool-start, no tool-done for it); and when the existence     *)
(* poll of a restored agent finds the file, the offset becomes the file's  *)
(* size.                                                                   *)
(***************************************************************************)
RestoredFor(agentId) ==
    /\ hist.restored[agentId].file # 0
    /\ agents[agentId].jsonlFile = hist.restored[agentId].file

FoundByRestorePoll ==
    {iv \in intervals \ intervals' :
        /\ iv.kind = "jsonlPoll" /\ iv.origin = "restoreAgents"
        /\ MapHas(agents, iv.id) /\ agents[iv.id].obj = iv.obj}

C12_RestoreReplaysNothing ==
    /\ [](\A agentId \in DOMAIN agents :
            RestoredFor(agentId) =>
               /\ agents[agentId].fileOffset >= hist.restored[agentId].size
               /\ \/ hist.readFrom[agentId] = 0
                  \/ hist.readFrom[agentId] > hist.restored[agentId].size)
    /\ [][last'.op = "jsonlPoll" =>
            \A iv \in FoundByRestorePoll :
               agents'[iv.id].fileOffset = Len(files[agents[iv.id].jsonlFile])]_vars

\* a restored agent whose file held a line before the restore has read a
\* line appended after it
C12_Witness ==
    \E agentId \in DOMAIN agents :
       /\ RestoredFor(agentId)
       /\ hist.restored[agentId].size > 0
       /\ hist.emitted[agentId] # <<>>

(***************************************************************************)
(* C13.  When a launch, a removal or a restore has completed, the          *)
(* persisted list holds exactly one entry (id, terminal name, log path)    *)
(* for each tracked agent and none for any other id; after a restore no    *)
(* entry names a terminal that no longer exists.                           *)
(***************************************************************************)
SnapshotOfAgents ==
    /\ Len(persisted) = Cardinality(DOMAIN agents)
    /\ \A id \in DOMAIN agents :
          \E k \in 1..Len(persisted) :
             persisted[k] = [id |-> id,
                             terminalName |-> agents[id].terminalRef,
                             jsonlFile |-> agents[id].jsonlFile]

C13_SnapshotMatchesAgents ==
    /\ last.op \in {"init", "openClaude", "closeTerminal", "webviewReady"}
          => SnapshotOfAgents
    /\ last.op \in {"init", "webviewReady"}
          => \A k \in 1..Len(persisted) : persisted[k].terminalName \in terminals

\* one of two tracked agents has been removed
C13_Witness ==
    /\ last.op = "closeTerminal"
    /\ Len(persisted) = 1
    /\ Cardinality(DOMAIN agents) = 1
    /\ Cardinality({i \in 1..MaxAgents : hist.owner[i] # 0}) = 2

\* the bytes of the lines a tailer emitted, as they stood in the file
RECURSIVE Joined(_)
Joined(lines) ==
    IF lines = <<>> THEN <<>>
    ELSE Append(Head(lines), "\n") \o Joined(Tail(lines))

\* the rebindings of agent id, and the file of the latest one
ReboundBy(id) == {k \in 1..Len(hist.rebinds) : hist.rebinds[k].id = id}
LastRebind(id) ==
    hist.rebinds[CHOOSE k \in ReboundBy(id) : \A j \in ReboundBy(id) : j <= k].file

\* an agent record as a new text prompt leaves its activity
FreshPromptState(a) ==
    /\ a.activeToolIds = {}
    /\ a.activeToolStatuses = EmptyMap
    /\ a.activeToolNames = EmptyMap
    /\ a.activeSubagentToolIds = EmptyMap
    /\ a.activeSubagentToolNames = EmptyMap
    /\ ~a.isWaiting
    /\ ~a.permissionSent
    /\ ~a.hadToolsInTurn

Launched == {id \in DOMAIN agents : /\ hist.restored[id].file = 0
                                    /\ agents[id].jsonlFile \in DOMAIN files}

\* C15: for an agent launched in this run, under every interleaving of
\* appends and wake-ups, the lines the tailer has emitted, each with its
\* newline, followed by the lineBuffer are the file's bytes up to fileOffset:
\* every line once, in file order, a cut line held in the lineBuffer, which
\* holds no newline; and a wake-up reads up to the end of the file
C15_EveryLineOnceInOrder ==
    /\ [](\A id \in Launched :
            /\ Joined(hist.emitted[id]) \o agents[id].lineBuffer =
                   SubSeq(files[agents[id].jsonlFile], 1, agents[id].fileOffset)
            /\ \A k \in 1..Len(agents[id].lineBuffer) :
                   agents[id].lineBuffer[k] # "\n")
    /\ [][last'.op = "wakeUp" /\ last'.id \in Launched =>
            agents'[last'.id].fileOffset =
                Len(files[agents[last'.id].jsonlFile])]_vars

\* a wake-up has left a tailer that emitted the line ab holding the cut
\* beginning of the next line in its lineBuffer
C15_Witness ==
    \E id \in Launched :
        /\ hist.emitted[id] = <<<<"a", "b">>>>
        /\ agents[id].lineBuffer = <<"a">>
        /\ last.op = "wakeUp"

\* the agents a step keeps tracked
Kept == DOMAIN agents \cap DOMAIN agents'

\* C16 as stated: no operation on a tracked agent (wake-up, restore,
\* reassignment) makes its fileOffset smaller
C16_OffsetOnlyIncreases ==
    [][\A id \in Kept : agents'[id].fileOffset >= agents[id].fileOffset]_vars

\* C16, amended: while an agent stays bound to the same log file no
\* operation (wake-up, existence poll, restore) makes its fileOffset smaller;
\* only the directory scan binds an agent to another file, and that
\* reassignment sets the fileOffset to 0
C16_OffsetIncreasesPerFile ==
    [][\A id \in Kept :
          IF agents'[id].jsonlFile = agents[id].jsonlFile
          THEN agents'[id].fileOffset >= agents[id].fileOffset
          ELSE last'.op = "scan" /\ agents'[id].fileOffset = 0]_vars

\* a restore has rebuilt an agent the scan had rebound, after its tailer had
\* read from the new file
C16_Witness ==
    /\ last.op = "webviewReady"
    /\ \E id \in DOMAIN agents :
          /\ ReboundBy(id) # {}
          /\ agents[id].jsonlFile = LastRebind(id)
          /\ agents[id].fileOffset > 0

ScanTimers == {iv \in intervals : iv.kind = "projectScan"}

C19_RestoreOnceAtStartup ==
    /\ [][last'.op = "webviewReady" /\ persisted # <<>> =>
            DOMAIN agents = {}]_vars
    /\ [][\A id \in Kept : agents'[id].obj = agents[id].obj]_vars

(***************************************************************************)
(* C20: a line that is not parseable JSON is dropped.  Processing it       *)
(* changes no field of any agent, starts and cancels no timer (the event   *)
(* loop's timeouts and both timer maps stay as they are) and posts no      *)
(* message; every later line is then processed exactly as it would have    *)
(* been processed had the malformed line not been there.                   *)
(***************************************************************************)
C20_MalformedLineDropped ==
    [][last'.op = "line" /\ last'.tag = "malformed" =>
          /\ agents' = agents
          /\ timeouts' = timeouts
          /\ waitingTimers' = waitingTimers
          /\ permissionTimers' = permissionTimers
          /\ out' = <<>> /\ cleared' = {}
          /\ \A record \in Records :
                processTranscriptLine(World', last'.id, record)
                    = processTranscriptLine(World, last'.id, record)]_vars

\* a malformed line was processed while a tool was running and the stall
\* timer was armed
C20_Witness ==
    /\ last.op = "line" /\ last.tag = "malformed"
    /\ agents[last.id].activeToolIds # {}
    /\ agents[last.id].hadToolsInTurn
    /\ MapHas(permissionTimers, last.id)

(***************************************************************************)
(* C21: duplicate and late records are idempotent.  When a tool-result,    *)
(* tool-invocation or turn_duration record has been processed, processing  *)
(* the same record again at once leaves the agent as it is, posts no       *)
(* tool-start and no sub-task-cleared message and schedules no further     *)
(* tool-done emission; a tool-result record all of whose ids are outside   *)
(* the active set does the same.                                           *)
(***************************************************************************)
HasBlockOfType(record, types) ==
    /\ record.isArray
    /\ \A k \in DOMAIN record.content : record.content[k].type # "null"
    /\ \E k \in DOMAIN record.content : record.content[k].type \in types

RepeatableRecords ==
    {r \in Records :
        \/ r.type = "system" /\ r.subtype = "turn_duration"
        \/ r.type = "assistant" /\ HasBlockOfType(r, {"tool_use"})
        \/ r.type = "user" /\ HasBlockOfType(r, {"tool_result"})}

LateResults(agent) ==
    {r \in Records :
        /\ r.type = "user" /\ HasBlockOfType(r, {"tool_result"})
        /\ \A k \in DOMAIN r.content :
              r.content[k].type = "tool_result"
                  => r.content[k].id \notin agent.activeToolIds}

\* s is w with nothing applied a second time
NothingReapplied(w, s, agentId) ==
    /\ s.agents[agentId] = w.agents[agentId]
    /\ DelayedEmissions(s) = DelayedEmissions(w)
    /\ \A k \in 1..Len(s.out) :
          s.out[k].type \notin {"agentToolStart", "agentToolDone",
                                "subagentClear"}

C21_DuplicatesAreNoOps ==
    /\ [][last'.op = "line" =>
            \A r \in RepeatableRecords :
                LET first == processTranscriptLine(World, last'.id, r)
                IN  (first.agents = agents' /\ first.timeouts = timeouts'
                        /\ first.out = out')
                    => NothingReapplied(World',
                           processTranscriptLine(World', last'.id, r),
                           last'.id)]_vars
    /\ [](\A agentId \in DOMAIN agents :
            \A r \in LateResults(agents[agentId]) :
                NothingReapplied(World,
                    processTranscriptLine(World, agentId, r), agentId))

(***************************************************************************)
(* C22: in every reachable state an agent whose isWaiting flag is true has *)
(* an empty active tool set, whether the flag was set by a turn_duration   *)
(* record or by the expiry of the idle timer.                              *)
(***************************************************************************)
C22_WaitingMeansNoActiveTool ==
    \A agentId \in DOMAIN agents :
        agents[agentId].isWaiting => agents[agentId].activeToolIds = {}

\* the idle timer has expired and set the flag in a turn that follows one
\* in which tools ran
C22_Witness ==
    /\ last.tag = "waiting"
    /\ agents[last.id].isWaiting
    /\ hist.started[last.id] # {}
    /\ hist.completed[last.id] # {}

(***************************************************************************)
(* C23: in every reachable state every key of the nested sub-task maps is  *)
(* a tool id that is in the active set with kind Task: no nested sub-task  *)
(* entry is left once its parent id has left the active set (by a          *)
(* tool-result, a new prompt or a turn_duration record).                   *)
(***************************************************************************)
SubTaskParents(agent) ==
    DOMAIN agent.activeSubagentToolIds \cup DOMAIN agent.activeSubagentToolNames

C24_ExpectedFileIsKnown ==
    /\ [](\A id \in DOMAIN agents : agents[id].jsonlFile \in knownJsonlFiles)
    /\ [][knownJsonlFiles \subseteq knownJsonlFiles']_vars
    /\ [][last'.op = "openClaude" =>
            /\ agents'[last'.id].jsonlFile \notin DOMAIN files
            /\ agents'[last'.id].jsonlFile \in knownJsonlFiles']_vars
    /\ [][hist'.rebinds # hist.rebinds =>
            \A id \in DOMAIN agents :
                agents[id].jsonlFile
                    # hist'.rebinds[Len(hist'.rebinds)].file]_vars

\* a scan ran after the file of a launched agent had appeared, and the
\* agent is still bound to that file
C24_Witness ==
    /\ last.op = "scan"
    /\ \E id \in DOMAIN agents :
          /\ hist.restored[id].file = 0
          /\ ReboundBy(id) = {}
          /\ agents[id].jsonlFile \in DOMAIN files

(***************************************************************************)
(* C25: processing an assistant record with at least one tool-invocation   *)
(* block cancels the pending idle timer, sets isWaiting false and          *)
(* hadToolsInTurn true, adds every invocation id of the record to the      *)
(* active set and posts one tool-start message per invocation block, in    *)
(* the order of the blocks.  The stall timer is (re)started, a live one    *)
(* being cancelled, exactly if some invocation of the record is of a       *)
(* non-exempt kind; a record whose invocations are all exempt leaves the   *)
(* stall timer as it is.  (Stated of every reachable state and every such  *)
(* record: what processing the record there results in.)                   *)
(***************************************************************************)
IsToolUse(block) == block.type = "tool_use"

IsToolStart(msg) == msg.type = "agentToolStart"

ToolUseRecords ==
    {r \in AssistantRecords : HasBlockOfType(r, {"tool_use"})}

LiveIn(s, kind, agentId) ==
    {t \in s.timeouts : t.kind = kind /\ t.id = agentId}

\* s is what processing the tool-invocation record r makes of w
ToolUseEffect(w, s, agentId, r) ==
    LET uses == SelectSeq(r.content, IsToolUse)
        starts == SelectSeq(s.out, IsToolStart)
        nonExempt == \E k \in DOMAIN uses :
                        uses[k].name \notin PERMISSION_EXEMPT_TOOLS
    IN  /\ s.tag \in {"toolsNonExempt", "toolsExempt"}
        /\ ~MapHas(s.waitingTimers, agentId)
        /\ LiveIn(s, "waiting", agentId) = {}
        /\ LiveIn(w, "waiting", agentId) # {}
              => \E c \in s.cleared : c.kind = "waiting"
        /\ s.timeouts \ w.timeouts \subseteq LiveIn(s, "permission", agentId)
        /\ ~s.agents[agentId].isWaiting
        /\ s.agents[agentId].hadToolsInTurn
        /\ s.agents[agentId].activeToolIds =
              w.agents[agentId].activeToolIds
                  \cup {uses[k].id : k \in DOMAIN uses}
        /\ Len(starts) = Len(uses)
        /\ \A k \in DOMAIN uses :
              /\ starts[k].toolId = uses[k].id
              /\ starts[k].id = agentId
              /\ s.agents[agentId].activeToolNames[uses[k].id] \in
                    {uses[j].name : j \in DOMAIN uses}
        /\ IF nonExempt
           THEN /\ Cardinality(LiveIn(s, "permission", agentId)) = 1
                /\ MapHas(s.permissionTimers, agentId)
                /\ LiveIn(w, "permission", agentId) # {}
                      => \E c \in s.cleared : c.kind = "permission"
                /\ \A t \in LiveIn(s, "permission", agentId) :
                      t.rem = PERMISSION_TIMER_DELAY_MS
           ELSE /\ LiveIn(s, "permission", agentId)
                      = LiveIn(w, "permission", agentId)
                /\ s.permissionTimers = w.permissionTimers
                /\ \A c \in s.cleared : c.kind # "permission"

C25_ToolUseRecord ==
    \A agentId \in DOMAIN agents :
        \A r \in ToolUseRecords :
            ToolUseEffect(World, processTranscriptLine(World, agentId, r),
                          agentId, r)

\* a record of exempt invocations only cancelled the idle timer and left a
\* live stall timer alone
C25_Witness ==
    /\ last.tag = "toolsExempt"
    /\ Cancelled(cleared, "waiting")
    /\ MapHas(permissionTimers, last.id)
    /\ LiveTimers("permission", last.id) # {}

(***************************************************************************)
(* C26: a text-only assistant record processed while hadToolsInTurn is     *)
(* true starts no idle timer, posts nothing and leaves every agent field   *)
(* and both timers as they are; processed while the flag is false it       *)
(* (re)starts the idle timer, with the whole idle delay ahead, a live one  *)
(* being cancelled, and changes no agent field (and nothing else).         *)
(***************************************************************************)
TextOnlyRecords ==
    {r \in AssistantRecords :
        HasBlockOfType(r, {"text"}) /\ ~HasBlockOfType(r, {"tool_use"})}

C26_TextOnlyRecord ==
    /\ [](\A agentId \in DOMAIN agents : \A r \in TextOnlyRecords :
            processTranscriptLine(World, agentId, r).tag =
                IF agents[agentId].hadToolsInTurn
                THEN "assistantNoop" ELSE "textIdle")
    /\ [][\A agentId \in DOMAIN agents :
            (last'.op = "line" /\ last'.id = agentId
                /\ last'.tag = "assistantNoop") =>
                /\ agents' = agents /\ out' = <<>> /\ cleared' = {}
                /\ timeouts' = timeouts
                /\ waitingTimers' = waitingTimers
                /\ permissionTimers' = permissionTimers]_vars
    /\ [][\A agentId \in DOMAIN agents :
            (last'.op = "line" /\ last'.id = agentId
                /\ last'.tag = "textIdle") =>
                /\ ~agents[agentId].hadToolsInTurn
                /\ agents' = agents /\ out' = <<>>
                /\ permissionTimers' = permissionTimers
                /\ timeouts' \ LiveTimers("waiting", agentId)'
                      = timeouts \ LiveTimers("waiting", agentId)
                /\ MapHas(waitingTimers', agentId)
                /\ Cardinality(LiveTimers("waiting", agentId)') = 1
                /\ \A t \in LiveTimers("waiting", agentId)' :
                      t.delay = TEXT_IDLE_DELAY_MS /\ t.rem = t.delay
                /\ cleared' = {[kind |-> t.kind, rem |-> t.rem] :
                                  t \in LiveTimers("waiting", agentId)}]_vars

\* a text-only record arrived in a turn that has used a tool, while the
\* stall timer of that tool was running
C26_Witness ==
    /\ last.op = "line" /\ last.tag = "assistantNoop"
    /\ agents[last.id].hadToolsInTurn
    /\ hist.lineTag[last.id] = "assistantNoop"
    /\ \E t \in LiveTimers("permission", last.id) :
          t.rem < PERMISSION_TIMER_DELAY_MS

(***************************************************************************)
(* C27: when a tool-result record completes an id whose kind is Task, the  *)
(* step in which the id leaves the active set also deletes the nested      *)
(* sub-task sets of that parent and posts the sub-task-cleared message for *)
(* it; the tool-done message for the id is not posted in that step but is  *)
(* left pending, to be posted by a later step.                             *)
(***************************************************************************)
TaskCompletedBy(agentId, toolId) ==
    /\ last'.op = "line" /\ last'.id = agentId
    /\ last'.tag \in {"toolResults", "threw"}
    /\ toolId \in agents[agentId].activeToolIds
    /\ toolId \notin agents'[agentId].activeToolIds
    /\ MapHas(agents[agentId].activeToolNames, toolId)
    /\ agents[agentId].activeToolNames[toolId] = "Task"

C27_TaskResultClearsSubTasks ==
    [][\A agentId \in DOMAIN agents : \A toolId \in ToolIds :
          TaskCompletedBy(agentId, toolId) =>
              /\ ~MapHas(agents'[agentId].activeSubagentToolIds, toolId)
              /\ ~MapHas(agents'[agentId].activeSubagentToolNames, toolId)
              /\ \E k \in 1..Len(out') :
                    out'[k] = Msg("subagentClear", agentId, "", toolId, "", 0)
              /\ \A k \in 1..Len(out') :
                    ~(out'[k].type = "agentToolDone" /\ out'[k].toolId = toolId)
              /\ \E t \in timeouts' \ timeouts :
                    /\ t.kind = "toolDone" /\ t.id = agentId
                    /\ t.toolId = toolId /\ t.rem = TOOL_DONE_DELAY_MS]_vars

\* a tool-result record has completed a Task while another tool of the
\* agent stays active: the sub-task-cleared message is out, the tool-done
\* message of the Task is pending
C27_Witness ==
    /\ last.tag = "toolResults"
    /\ agents[last.id].activeToolIds # {}
    /\ \E k \in Posted("subagentClear") :
          /\ \E t \in timeouts :
                t.kind = "toolDone" /\ t.toolId = out[k].parentToolId
          /\ out[k].parentToolId \notin agents[last.id].activeToolIds

(***************************************************************************)
(* C28: the new-prompt reset is applied only for a user record with        *)
(* non-empty freeform text (a non-blank string, or a text block); a user   *)
(* record that carries no tool-result block and no non-empty text (a       *)
(* whitespace-only string, an empty content array) changes no state and    *)
(* posts nothing.                                                          *)
(***************************************************************************)
HasFreeformText(r) ==
    IF r.isArray
    THEN \E k \in DOMAIN r.content : r.content[k].type = "text"
    ELSE Trim(r.text) # ""

HasToolResult(r) ==
    r.isArray /\ \E k \in DOMAIN r.content : r.content[k].type = "tool_result"

C28_ResetOnlyForPrompt ==
    \A agentId \in DOMAIN agents : \A r \in UserRecords :
        LET s == processTranscriptLine(World, agentId, r)
        IN  /\ s.tag = "userPrompt" => HasFreeformText(r)
            /\ (~HasToolResult(r) /\ ~HasFreeformText(r)) =>
                  /\ s.agents = agents /\ s.timeouts = timeouts
                  /\ s.waitingTimers = waitingTimers
                  /\ s.permissionTimers = permissionTimers
                  /\ s.out = <<>>

(***************************************************************************)
(* C29: a progress record has no effect at all unless its parent id is an  *)
(* active Task tool.  When it is, a sub-task record with user content      *)
(* removes the nested tools its tool-result blocks complete and then       *)
(* restarts the stall timer exactly if some nested tool that remains,      *)
(* under any parent, is of a non-exempt kind; otherwise the stall timer is *)
(* neither restarted nor cancelled.                                        *)
(***************************************************************************)
IsActiveTask(agent, toolId) ==
    /\ toolId \in agent.activeToolIds
    /\ MapHas(agent.activeToolNames, toolId)
    /\ agent.activeToolNames[toolId] = "Task"

NoNullBlock(r) == \A k \in DOMAIN r.content : r.content[k].type # "null"

SubTaskRecords == {r \in SubagentRecords : NoNullBlock(r)}

NestedNonExempt(agent) ==
    \E p \in DOMAIN agent.activeSubagentToolNames :
        \E sub \in DOMAIN agent.activeSubagentToolNames[p] :
            agent.activeSubagentToolNames[p][sub] \notin ExemptKinds

\* s is w: the record had no effect
NoEffect(w, s) ==
    /\ s.agents = w.agents /\ s.timeouts = w.timeouts
    /\ s.waitingTimers = w.waitingTimers
    /\ s.permissionTimers = w.permissionTimers
    /\ s.out = <<>> /\ s.cleared = {}

\* s is what the sub-task record r with user content makes of w
SubTaskResultEffect(w, s, agentId, r) ==
    LET done == {r.content[k].id : k \in DOMAIN r.content}
        p == r.parentToolUseID
        before == w.agents[agentId].activeSubagentToolNames
        after == s.agents[agentId].activeSubagentToolNames
    IN  /\ DOMAIN after = DOMAIN before
        /\ \A q \in DOMAIN before :
              after[q] = IF q = p
                         THEN [x \in DOMAIN before[q] \ done |-> before[q][x]]
                         ELSE before[q]
        /\ s.waitingTimers = w.waitingTimers
        /\ LiveIn(s, "waiting", agentId) = LiveIn(w, "waiting", agentId)
        /\ IF NestedNonExempt(s.agents[agentId])
           THEN /\ Cardinality(LiveIn(s, "permission", agentId)) = 1
                /\ MapHas(s.permissionTimers, agentId)
                /\ \A t \in LiveIn(s, "permission", agentId) :
                      t.rem = PERMISSION_TIMER_DELAY_MS
                /\ LiveIn(w, "permission", agentId) # {}
                      => \E c \in s.cleared : c.kind = "permission"
           ELSE /\ LiveIn(s, "permission", agentId)
                      = LiveIn(w, "permission", agentId)
                /\ s.permissionTimers = w.permissionTimers
                /\ s.cleared = {}

\* the statement for the sub-task (agent_progress) records
SubTaskProgress(agentId) ==
    \A r \in SubTaskRecords :
        LET s == processTranscriptLine(World, agentId, r)
        IN  IF ~IsActiveTask(agents[agentId], r.parentToolUseID)
            THEN NoEffect(World, s)
            ELSE r.msgType = "user"
                    => SubTaskResultEffect(World, s, agentId, r)

\* the statement for the bash_progress / mcp_progress pulses
PulseProgress(agentId) ==
    \A r \in PulseRecords :
        ~IsActiveTask(agents[agentId], r.parentToolUseID)
            => NoEffect(World, processTranscriptLine(World, agentId, r))

C29_ProgressNeedsActiveTask ==
    \A agentId \in DOMAIN agents :
        SubTaskProgress(agentId) /\ PulseProgress(agentId)

\* C29 as it holds: a sub-task (agent_progress) record has no effect at
\* all unless its parent id is an active Task tool; when it is, a record
\* with user content removes the completed nested tools and restarts the
\* stall timer exactly if a remaining nested tool, under any parent, is
\* non-exempt, and otherwise leaves the stall timer alone.  (A pulse
\* restarts the stall timer whenever its parent id is active, of any kind.)
C29_SubTaskProgressNeedsActiveTask ==
    \A agentId \in DOMAIN agents : SubTaskProgress(agentId)

\* a sub-task record completed a nested tool and restarted the stall timer
\* for a non-exempt nested tool that remains under the other parent
C29_Witness ==
    /\ last.tag = "subResultsRestart"
    /\ Cancelled(cleared, "permission")
    /\ \E t \in timeouts : t.kind = "subagentToolDone"
          /\ t.parentToolId \in agents[last.id].activeToolIds
          /\ \E q \in DOMAIN agents[last.id].activeSubagentToolNames :
                /\ q # t.parentToolId
                /\ \E sub \in DOMAIN agents[last.id].activeSubagentToolNames[q] :
                      agents[last.id].activeSubagentToolNames[q][sub] = "Bash"


(***************************************************************************)
(* C30.  The idle fallback is silence-based.  Whatever record the tailer   *)
(* hands to the parser for an agent (a tool-result, a progress record and  *)
(* an assistant record with neither text nor tool blocks included), no     *)
(* idle timer that has already run for part of its delay is left: a        *)
(* running idle timer is cancelled, and an idle timer that is live after   *)
(* the record has the whole delay ahead of it.  So a 'waiting' event the   *)
(* idle timer posts comes exactly TEXT_IDLE_DELAY_MS after the last record *)
(* processed for the agent, never at the deadline of an earlier record.    *)
(***************************************************************************)
SilenceBreakers ==
    {Rec("user", "", TRUE, <<Block("tool_result", "t1", "")>>, "", "", "", ""),
     Rec("progress", "", FALSE, <<>>, "", "t1", "bash_progress", ""),
     Rec("assistant", "", TRUE, <<>>, "", "", "", "")}

FoundByLaunchPoll ==
    {iv \in intervals \ intervals' :
        iv.kind = "jsonlPoll" /\ iv.origin = "launchNewTerminal"}

TailerStartedOnce(s, id) ==
    /\ Cardinality(LiveIntervals(s, "watcher", id)) = 1
    /\ Cardinality(LiveIntervals(s, "polling", id)) = 1
    /\ LiveIntervals(s, "jsonlPoll", id) = {}

NoPollNoTailer(s, id) ==
    /\ \A iv \in LiveIntervals(s, "jsonlPoll", id) :
          iv.origin # "launchNewTerminal"
    /\ LiveIntervals(s, "watcher", id) = {}
    /\ LiveIntervals(s, "polling", id) = {}

C31_PollStartsTailerOnce ==
    [][/\ last'.op = "jsonlPoll" =>
            \A iv \in FoundByLaunchPoll :
                /\ MapHas(agents', iv.id)
                /\ agents'[iv.id].obj = iv.obj
                /\ agents[iv.id].fileOffset = 0
                /\ agents'[iv.id].fileOffset = Len(files[agents[iv.id].jsonlFile])
                /\ TailerStartedOnce(World', iv.id)
       /\ \A id \in 1..MaxAgents :
            ~MapHas(agents', id) => NoPollNoTailer(World', id)]_vars


(***************************************************************************)
(* C32.  An agent with a non-empty active tool set has hadToolsInTurn      *)
(* true.  A tool-result record that is processed to its end clears the     *)
(* flag if the active set is empty after its result blocks and leaves the  *)
(* flag as it was otherwise; and whatever record clears the flag leaves    *)
(* the active set empty and is a tool-result record, a new prompt or a     *)
(* turn_duration record.                                                   *)
(***************************************************************************)
C32_ActiveMeansToolTurn ==
    \A agentId \in DOMAIN agents :
        /\ agents[agentId].activeToolIds # {} => agents[agentId].hadToolsInTurn
        /\ \A r \in Records :
              LET s == processTranscriptLine(World, agentId, r)
                  a == s.agents[agentId]
              IN  /\ a.activeToolIds # {} => a.hadToolsInTurn
                  /\ s.tag = "toolResults" =>
                        a.hadToolsInTurn =
                            (a.activeToolIds # {}
                                /\ agents[agentId].hadToolsInTurn)
                  /\ (agents[agentId].hadToolsInTurn /\ ~a.hadToolsInTurn) =>
                        /\ a.activeToolIds = {}
                        /\ s.tag \in {"toolResults", "userPrompt",
                                      "turnDuration"}

\* a tool-result record has completed one of two active tools: the other
\* is still active and the flag is still set
C32_Witness ==
    /\ last.op = "line" /\ last.tag = "toolResults"
    /\ agents[last.id].activeToolIds # {}
    /\ agents[last.id].hadToolsInTurn
    /\ \E t \in timeouts :
          /\ t.kind = "toolDone" /\ t.id = last.id
          /\ t.toolId \notin agents[last.id].activeToolIds


(***************************************************************************)
(* C33.  In every reachable state an agent whose active set or whose       *)
(* nested sub-task sets hold a tool of a non-exempt kind has a stall timer *)
(* pending or has permissionSent set.                                      *)
(***************************************************************************)
C33_NonExemptIsWatched ==
    \A agentId \in DOMAIN agents :
        SomeNonExemptActive(agents[agentId]) =>
            \/ LiveTimers("permission", agentId) # {}
            \/ agents[agentId].permissionSent


(***************************************************************************)
(* C34.  Line processing is all-or-nothing: a record whose processing      *)
(* raises an error at one of its blocks leaves the agent state, the timers *)
(* and the emitted events exactly as they were before the line.            *)
(***************************************************************************)
C34_AllOrNothing ==
    \A agentId \in DOMAIN agents : \A r \in Records :
        LET s == processTranscriptLine(World, agentId, r)
        IN  s.tag = "threw" =>
               /\ s.agents = agents
               /\ s.timeouts = timeouts
               /\ s.waitingTimers = waitingTimers
               /\ s.permissionTimers = permissionTimers
               /\ s.out = <<>>
               /\ s.cleared = {}


(***************************************************************************)
(* C35.  After removeAgent(id) no status, stall, tool-start, tool-done or  *)
(* sub-task event carrying that id is emitted: every such message a step   *)
(* posts carries the id of an agent that is tracked after the step.        *)
(***************************************************************************)
AgentEvents ==
    {"agentStatus", "agentToolPermission", "agentToolStart", "agentToolDone",
     "agentToolsClear", "subagentToolStart", "subagentToolDone",
     "subagentClear", "subagentToolPermission"}

C35_RemovedAgentIsSilent ==
    \A k \in 1..Len(out) :
        out[k].type \in AgentEvents => out[k].id \in DOMAIN agents


(***************************************************************************)
(* C36.  At most one existence poll is live per agent id, and it is the    *)
(* one jsonlPollTimers records: an existence poll whose handle is not in   *)
(* the map is not running.                                                 *)
(***************************************************************************)
C36_OnePollPerAgent ==
    \A id \in 1..MaxAgents :
        /\ Cardinality(LiveIntervals(World, "jsonlPoll", id)) <= 1
        /\ \A iv \in LiveIntervals(World, "jsonlPoll", id) :
              MapHas(jsonlPollTimers, id) /\ jsonlPollTimers[id] = iv.h


(***************************************************************************)
(* C37.  In every state reachable through launch, restore, active-terminal *)
(* change, terminal close and dispose, the focused-agent id the directory  *)
(* scan uses is null (0) or the id of an agent in the registry.            *)
(***************************************************************************)
C37_FocusedAgentIsTracked ==
    activeAgentId = 0 \/ activeAgentId \in DOMAIN agents


(***************************************************************************)
(* C38.  The webview's view agrees with the engine.  With tool ids never   *)
(* reused: whenever no delayed tool-done emission is pending for an agent, *)
(* the tools the webview holds as not done for it are the agent's active   *)
(* tool set; and the webview's tool list of an agent never holds two       *)
(* entries with the same tool id.                                          *)
(***************************************************************************)
ToolList(id) == IF MapHas(agentTools, id) THEN agentTools[id] ELSE <<>>

NotDone(id) ==
    {ToolList(id)[k].toolId : k \in {j \in DOMAIN ToolList(id) :
                                       ~ToolList(id)[j].done}}

C38_ViewAgreesWithEngine ==
    \A id \in DOMAIN agents :
        /\ \A i, j \in DOMAIN ToolList(id) :
              ToolList(id)[i].toolId = ToolList(id)[j].toolId => i = j
        /\ {t \in timeouts : t.kind = "toolDone" /\ t.id = id} = {}
              => NotDone(id) = agents[id].activeToolIds

\* the delayed emission of a completed tool has just reached the webview,
\* which holds that tool as done and another one, still active, as not done
C38_Witness ==
    /\ last.op = "timeout" /\ last.tag = "toolDone"
    /\ {t \in timeouts : t.kind = "toolDone" /\ t.id = last.id} = {}
    /\ Len(ToolList(last.id)) = 2
    /\ agents[last.id].activeToolIds # {}
    /\ NotDone(last.id) = agents[last.id].activeToolIds
    /\ \E k \in DOMAIN ToolList(last.id) : ToolList(last.id)[k].done

====
